---- MODULE Spec2Model ----
(***************************************************************************)
(* Model of the statistical profiling engine, src/src/profiling/           *)
(* data_profiler.py: DataProfiler.__init__ and the stages of               *)
(* DataProfiler.profile().                                                 *)
(*                                                                         *)
(* A DataFrame is a record [index, columns]: the number of rows and the    *)
(* sequence of columns; a column is a record [name, dtype, cells] with      *)
(* Len(cells) = index.  A name is a sequence of one-character strings  *)
(* (so that lower() and the substring test are computed).  A cell is a     *)
(* record [k, v]: k = "na" (missing: NaN / None / NaT), "num" (a number,   *)
(* v its value; True/False are 1/0), "ts" (a timestamp, v in abstract      *)
(* time units), "str" (a text that is no date, v its code) or "datestr"    *)
(* (a text that parses as the timestamp v).                                *)
(* Fractions (thresholds, quantiles, percentages) are pairs <<n, d>>,      *)
(* d > 0, compared by cross-multiplication; on the small integers of the   *)
(* model the float arithmetic of the code is exact.                        *)
(***************************************************************************)
EXTENDS Integers, Sequences, FiniteSets, TLC

VARIABLES
    caller_df,              \* the DataFrame the caller passes to __init__
    config,                 \* the configuration dictionary the caller passes
    self,                   \* the DataProfiler's attributes
    column_classification,  \* profile()'s local of that name
    partial,                \* entries of the result dict literal built so far
    pc,                     \* position of the caller in __init__ / profile()
    exc,                    \* the exception that ended the run, or "none"
    returned,               \* the dicts profile() has returned, in call order
    exported,               \* what to_json / to_streamlit_tables last returned
    groq,                   \* one call of GroqClient.generate
    planner,                \* one call of plan_visualizations
    session                 \* st.session_state of the dashboard

\* the variables outside the DataProfiler
others == <<exported, groq, planner, session>>

vars == <<caller_df, config, self, column_classification, partial, pc, exc,
          returned, others>>

MaxRows == 4
\* the calls of profile() a caller makes in a row
MaxCalls == 2
\* the largest configured llm.max_retries
MaxRetries == 4
\* the rows of the three-column numeric tables
TableRows == 3

(***************************** fractions ***********************************)
Frac(n, d) == <<n, d>>
FLe(a, b) == a[1] * b[2] <= b[1] * a[2]
FLt(a, b) == a[1] * b[2] < b[1] * a[2]
FEq(a, b) == a[1] * b[2] = b[1] * a[2]
FAdd(a, b) == <<a[1] * b[2] + b[1] * a[2], a[2] * b[2]>>
FSub(a, b) == <<a[1] * b[2] - b[1] * a[2], a[2] * b[2]>>
FMul(a, b) == <<a[1] * b[1], a[2] * b[2]>>
\* the float nan, the result of 0 / 0 on numpy numbers; every comparison with
\* it is False
NaN == <<0, 0>>
IsNaN(a) == a[2] = 0
\* numpy's a / b
Div(a, b) == IF b = 0 THEN NaN ELSE <<a, b>>
\* a >= b on floats
FGe(a, b) == ~IsNaN(a) /\ ~IsNaN(b) /\ FLe(b, a)

(****************************** strings ************************************)
\* str.lower() on one character
LowerChar(ch) ==
    CASE ch = "I" -> "i"
      [] ch = "D" -> "d"
      [] ch = "K" -> "k"
      [] ch = "X" -> "x"
      [] OTHER -> ch

\* str.lower()
Lower(s) == [i \in 1..Len(s) |-> LowerChar(s[i])]

\* Python's `pattern in text` on strings
StrIn(pattern, text) ==
    \E i \in 0..(Len(text) - Len(pattern)) :
        SubSeq(text, i + 1, i + Len(pattern)) = pattern

(****************************** cells **************************************)
NA == [k |-> "na", v |-> 0]
Num(x) == [k |-> "num", v |-> x]
Ts(x) == [k |-> "ts", v |-> x]
Str(x) == [k |-> "str", v |-> x]
DateStr(x) == [k |-> "datestr", v |-> x]

\* the cells from row i on whose kind is one of keep, in row order
SelectCells(cells, keep, i) ==
    SelectSeq(SubSeq(cells, i, Len(cells)), LAMBDA cell : cell.k \in keep)

AllKinds == {"num", "ts", "str", "datestr"}

\* Series.dropna()
dropna(cells) == SelectCells(cells, AllKinds, 1)
\* Series.notna().sum()
notna_sum(cells) == Len(dropna(cells))
\* Series.isna().sum()
isna_sum(cells) == Len(cells) - notna_sum(cells)
\* Series.dropna().unique(), as a set
unique(cells) == {cells[i] : i \in {j \in 1..Len(cells) : cells[j].k # "na"}}
\* Series.nunique(): distinct non-missing values
nunique(cells) == Cardinality(unique(cells))

\* Series.head(n)
head(cells, n) == SubSeq(cells, 1, IF Len(cells) < n THEN Len(cells) ELSE n)

(****************************** dtypes *************************************)
\* pd.api.types.is_numeric_dtype
is_numeric_dtype(dtype) == dtype \in {"int64", "float64", "bool"}
\* pd.api.types.is_datetime64_any_dtype
is_datetime64_any_dtype(dtype) == dtype \in {"datetime64[ns]", "datetime64[ns, UTC]"}

\* pd.to_datetime(series, errors='raise') succeeds: every value is a
\* timestamp or a text that parses as one
to_datetime_raises(cells) ==
    \E i \in 1..Len(cells) : cells[i].k \notin {"ts", "datestr"}

(*************************** configuration *********************************)
\* dict.get(key, default)
Get(d, key, default) == IF key \in DOMAIN d THEN d[key] ELSE default

DefaultIdPatterns == << <<"i", "d">>, <<"i", "n", "d", "e", "x">>, <<"k", "e", "y">> >>

\* faulty variant: a negative numeric option is replaced by its default
InitAttributesClamped(df, cfg) ==
    LET profiling_config == Get(cfg, "profiling", <<>>)
        Option(key, default) ==
            LET x == Get(profiling_config, key, default) IN
            IF x[1] < 0 THEN default ELSE x
    IN
    [ df |-> df,
      id_patterns |-> Get(profiling_config, "id_column_patterns", DefaultIdPatterns),
      high_cardinality_threshold |-> Option("high_cardinality_threshold", Frac(95, 100)),
      correlation_threshold |-> Option("correlation_threshold", Frac(6, 10)),
      outlier_method |-> Get(profiling_config, "outlier_method", "IQR"),
      outlier_multiplier |-> Option("outlier_multiplier", Frac(15, 10)),
      high_missing_threshold |-> Option("high_missing_threshold", Frac(5, 10)),
      top_n_categories |-> Get(profiling_config, "top_categories_count", 10),
      profile_results |-> <<>> ]

\* DataProfiler.__init__: the attributes read from config['profiling']
InitAttributes(df, cfg) ==
    LET profiling_config == Get(cfg, "profiling", <<>>) IN
    [ df |-> df,
      id_patterns |-> Get(profiling_config, "id_column_patterns", DefaultIdPatterns),
      high_cardinality_threshold |->
          Get(profiling_config, "high_cardinality_threshold", Frac(95, 100)),
      correlation_threshold |->
          Get(profiling_config, "correlation_threshold", Frac(6, 10)),
      outlier_method |-> Get(profiling_config, "outlier_method", "IQR"),
      outlier_multiplier |-> Get(profiling_config, "outlier_multiplier", Frac(15, 10)),
      high_missing_threshold |->
          Get(profiling_config, "high_missing_threshold", Frac(5, 10)),
      top_n_categories |-> Get(profiling_config, "top_categories_count", 10),
      profile_results |-> <<>> ]

(************************** column classifier ******************************)
\* _is_id_column, lines 139-143: the name test
IdPatternMatch(id_patterns, name) ==
    LET col_lower == Lower(name) IN
    \E i \in 1..Len(id_patterns) : StrIn(id_patterns[i], col_lower)

\* faulty variant: the ratio must exceed the threshold
IdByCardinalityStrict(threshold, cells) ==
    LET non_null_count == notna_sum(cells) IN
    IF non_null_count = 0 THEN FALSE
    ELSE FLt(threshold, Frac(nunique(cells), non_null_count))

\* _is_id_column, lines 145-156: the cardinality test
IdByCardinality(threshold, cells) ==
    LET non_null_count == notna_sum(cells) IN
    IF non_null_count = 0 THEN FALSE
    ELSE FLe(threshold, Frac(nunique(cells), non_null_count))

\* _is_id_column
is_id_column(s, col) ==
    \/ IdPatternMatch(s.id_patterns, col.name)
    \/ IdByCardinality(s.high_cardinality_threshold, col.cells)

\* faulty variant: only the number of distinct values is tested
IsBooleanValuesCountOnly(cells) == Cardinality(unique(cells)) <= 2

\* faulty variant: a column without any value is not taken for boolean
IsBooleanValuesNonEmpty(cells) ==
    LET unique_vals == unique(cells) IN
    /\ Cardinality(unique_vals) \in 1..2
    /\ unique_vals \subseteq {Num(0), Num(1)}

\* the boolean special case of a numeric column, lines 108-109
IsBooleanValues(cells) ==
    LET unique_vals == unique(cells) IN
    /\ Cardinality(unique_vals) <= 2
    /\ unique_vals \subseteq {Num(0), Num(1)}

\* head(100) of line 120
HeadCount == 100

\* lines 104-123: the class a column gets from its data type and values
TypeClass(col) ==
    IF is_numeric_dtype(col.dtype)
    THEN IF IsBooleanValues(col.cells) THEN "boolean" ELSE "numeric"
    ELSE IF is_datetime64_any_dtype(col.dtype) THEN "datetime"
    ELSE IF to_datetime_raises(head(dropna(col.cells), HeadCount))
         THEN "categorical"
         ELSE "datetime"

\* faulty variant: the `continue` of line 101 is missing
ClassesOfNoContinue(s, col) ==
    IF is_id_column(s, col) THEN {"id", TypeClass(col)} ELSE {TypeClass(col)}

\* lines 97-123: the classes the loop body appends the column to
ClassesOf(s, col) ==
    IF is_id_column(s, col) THEN {"id"} ELSE {TypeClass(col)}

Classes == {"numeric", "categorical", "datetime", "boolean", "id"}

RECURSIVE NamesOfClass(_, _, _)
NamesOfClass(s, cols, class) ==
    IF cols = <<>> THEN <<>>
    ELSE IF class \in ClassesOf(s, Head(cols))
         THEN <<Head(cols).name>> \o NamesOfClass(s, Tail(cols), class)
         ELSE NamesOfClass(s, Tail(cols), class)

\* _classify_columns: the lists, each in column order
classify_columns(s) == [c \in Classes |-> NamesOfClass(s, s.df.columns, c)]

\* the column of that name (self.df[col])
RECURSIVE ColumnOf(_, _)
ColumnOf(cols, name) ==
    IF Head(cols).name = name THEN Head(cols) ELSE ColumnOf(Tail(cols), name)

\* _get_overview (the memory estimate is left out)
get_overview(s) ==
    [ rows |-> s.df.index,
      columns |-> Len(s.df.columns),
      column_names |-> [i \in 1..Len(s.df.columns) |-> s.df.columns[i].name] ]

(************************* numeric statistician ****************************)
\* Series.sort_values(): the k-th element of the result is the value with
\* fewer than k values below it and at least k values not above it
SortValues(xs) ==
    [k \in 1..Len(xs) |->
        CHOOSE v \in {xs[i] : i \in 1..Len(xs)} :
            /\ Cardinality({i \in 1..Len(xs) : xs[i] < v}) < k
            /\ k <= Cardinality({i \in 1..Len(xs) : xs[i] <= v})]

\* the values of cells that hold one, in row order
Values(cells) == LET d == dropna(cells) IN [i \in 1..Len(d) |-> d[i].v]

\* the sum of a sequence, by halves
RECURSIVE SumSeq(_)
SumSeq(xs) ==
    IF xs = <<>> THEN 0
    ELSE IF Len(xs) = 1 THEN xs[1]
    ELSE SumSeq(SubSeq(xs, 1, Len(xs) \div 2))
         + SumSeq(SubSeq(xs, Len(xs) \div 2 + 1, Len(xs)))

\* faulty variant: the interpolation steps the wrong way
QuantileWrongSign(sorted, qn, qd) ==
    LET n == Len(sorted)
        lo == ((n - 1) * qn) \div qd
        r == ((n - 1) * qn) % qd
        hi == IF lo + 1 > n - 1 THEN n - 1 ELSE lo + 1
    IN Frac(qd * sorted[lo + 1] - r * (sorted[hi + 1] - sorted[lo + 1]), qd)

\* Series.quantile(qn / qd): linear interpolation between the order
\* statistics around position (n - 1) * qn / qd
Quantile(sorted, qn, qd) ==
    LET n == Len(sorted)
        lo == ((n - 1) * qn) \div qd
        r == ((n - 1) * qn) % qd
        hi == IF lo + 1 > n - 1 THEN n - 1 ELSE lo + 1
    IN Frac(qd * sorted[lo + 1] + r * (sorted[hi + 1] - sorted[lo + 1]), qd)

\* Series.median(): the middle value, or the mean of the two middle values
Median(sorted) ==
    LET n == Len(sorted) IN
    IF n % 2 = 1 THEN Frac(sorted[(n + 1) \div 2], 1)
    ELSE Frac(sorted[n \div 2] + sorted[n \div 2 + 1], 2)

\* the lower and upper Tukey fences, lines 207-211
LowerBound(q1, q3, k) == FSub(q1, FMul(k, FSub(q3, q1)))
UpperBound(q1, q3, k) == FAdd(q3, FMul(k, FSub(q3, q1)))

\* faulty variant: a value on a fence counts as an outlier
IsOutlierInclusive(v, lower_bound, upper_bound) ==
    FLe(Frac(v, 1), lower_bound) \/ FLe(upper_bound, Frac(v, 1))

\* line 213: the values strictly outside the fences
IsOutlier(v, lower_bound, upper_bound) ==
    FLt(Frac(v, 1), lower_bound) \/ FLt(upper_bound, Frac(v, 1))

OutlierCount(xs, lower_bound, upper_bound) ==
    Cardinality({i \in 1..Len(xs) : IsOutlier(xs[i], lower_bound, upper_bound)})

\* _profile_numeric (std, skewness and kurtosis are left out)
profile_numeric(s, name) ==
    LET col == ColumnOf(s.df.columns, name)
        series == Values(col.cells)
        sorted == SortValues(series)
        n == Len(series)
        base == [ count |-> n,
                  missing |-> isna_sum(col.cells),
                  missing_pct |-> Div(isna_sum(col.cells) * 100, s.df.index),
                  mean |-> Frac(SumSeq(series), n),
                  median |-> Median(sorted),
                  min |-> Frac(sorted[1], 1),
                  max |-> Frac(sorted[n], 1),
                  q25 |-> Quantile(sorted, 1, 4),
                  q75 |-> Quantile(sorted, 3, 4) ]
        lower_bound == LowerBound(base.q25, base.q75, s.outlier_multiplier)
        upper_bound == UpperBound(base.q25, base.q75, s.outlier_multiplier)
        outliers == OutlierCount(series, lower_bound, upper_bound)
    IN IF n = 0 THEN [error |-> "No non-null values"]
       ELSE IF s.outlier_method = "IQR"
            THEN [ outlier_count |-> outliers,
                   outlier_pct |-> Frac(outliers * 100, n) ] @@ base
            ELSE base

\* the keys of the dict a _profile_all_* loop builds: the columns of the class
Keys(names) == {names[i] : i \in 1..Len(names)}

\* _profile_all_numeric
profile_all_numeric(s, classification) ==
    [nm \in Keys(classification["numeric"]) |-> profile_numeric(s, nm)]

(************************ categorical statistician *************************)
\* the distinct non-missing values in the order of their first appearance
RECURSIVE FirstSeen(_)
FirstSeen(cells) ==
    IF cells = <<>> THEN <<>>
    ELSE LET rest == FirstSeen(SubSeq(cells, 1, Len(cells) - 1))
             last == cells[Len(cells)]
         IN IF last.k = "na" \/ \E i \in 1..Len(rest) : rest[i] = last
            THEN rest
            ELSE Append(rest, last)

\* how many cells hold the value
CountOf(cells, value) == Cardinality({i \in 1..Len(cells) : cells[i] = value})

\* faulty variant: the sort of value_counts in ascending order of count
RECURSIVE InsertByCountAscending(_, _)
InsertByCountAscending(x, sorted) ==
    IF sorted = <<>> THEN <<x>>
    ELSE IF Head(sorted).count > x.count
         THEN <<x>> \o sorted
         ELSE <<Head(sorted)>> \o InsertByCountAscending(x, Tail(sorted))

\* the sort of value_counts: descending by count, equal counts stay in
\* the order of first appearance
RECURSIVE InsertByCount(_, _)
InsertByCount(x, sorted) ==
    IF sorted = <<>> THEN <<x>>
    ELSE IF Head(sorted).count < x.count
         THEN <<x>> \o sorted
         ELSE <<Head(sorted)>> \o InsertByCount(x, Tail(sorted))

RECURSIVE SortByCount(_)
SortByCount(xs) ==
    IF xs = <<>> THEN <<>>
    ELSE InsertByCount(xs[Len(xs)], SortByCount(SubSeq(xs, 1, Len(xs) - 1)))

\* Series.value_counts(): the non-missing values with their counts, the
\* most frequent first
value_counts(cells) ==
    LET seen == FirstSeen(cells) IN
    SortByCount([i \in 1..Len(seen) |->
                    [value |-> seen[i], count |-> CountOf(cells, seen[i])]])

\* str(value) of a cell of a categorical column: a string is its own text
str(value) ==
    IF value.k \in {"str", "datestr"} THEN value ELSE [k |-> "str", v |-> value]

RECURSIVE Pow(_, _)
Pow(b, e) == IF e = 0 THEN 1 ELSE b * Pow(b, e - 1)

RECURSIVE SumCounts(_)
SumCounts(vc) == IF vc = <<>> THEN 0 ELSE Head(vc).count + SumCounts(Tail(vc))

RECURSIVE ProdCountPowers(_)
ProdCountPowers(vc) ==
    IF vc = <<>> THEN 1
    ELSE Pow(Head(vc).count, Head(vc).count) * ProdCountPowers(Tail(vc))

\* scipy.stats.entropy(pk): H = -sum(p * ln p) with p = pk / sum(pk).  The
\* logarithm is kept out of the arithmetic by recording exp(n * H) for
\* n = sum(pk), which is the fraction n^n / prod(c^c) over the counts c:
\* H >= 0 iff this fraction is >= 1, and H = 0 iff it is 1.
entropy(vc) == Frac(Pow(SumCounts(vc), SumCounts(vc)), ProdCountPowers(vc))

\* a float 0, in the same scale as entropy
ZeroEntropy == Frac(1, 1)

\* lines 253-259: the list of top categories
TopCategories(value_counts_, total) ==
    [i \in 1..Len(value_counts_) |->
        [ value |-> str(value_counts_[i].value),
          count |-> value_counts_[i].count,
          percentage |-> IF total > 0
                         THEN Div(value_counts_[i].count * 100, total)
                         ELSE Frac(0, 1) ]]

\* _profile_categorical, lines 239-264
profile_categorical(s, name) ==
    LET series == ColumnOf(s.df.columns, name).cells
        \* line 250: the counts of the top categories only
        value_counts_ == head(value_counts(series), s.top_n_categories)
        total == notna_sum(series)
    IN
    [ count |-> notna_sum(series),
      missing |-> isna_sum(series),
      missing_pct |-> Div(isna_sum(series) * 100, s.df.index),
      unique_count |-> nunique(series),
      top_categories |-> TopCategories(value_counts_, total),
      \* line 262: the entropy of the counts kept at line 250
      entropy |-> IF Len(value_counts_) > 0 THEN entropy(value_counts_)
                  ELSE ZeroEntropy ]

\* _profile_all_categorical
profile_all_categorical(s, classification) ==
    [nm \in Keys(classification["categorical"]) |-> profile_categorical(s, nm)]

(************************* datetime statistician ***************************)
\* Time is counted in centuries from 1700-01-01.  A datetime64[ns]
\* timestamp lies between 1677 and 2262; the difference of two timestamps
\* is a Timedelta, which holds at most about 292 years either way:
\* a difference outside TimedeltaRange raises OverflowError.
TimedeltaRange == (-2)..2

\* pd.to_datetime(series, errors='coerce') on one cell: a text that is no
\* date becomes NaT
Coerce(cell) ==
    CASE cell.k = "datestr" -> Ts(cell.v)
      [] cell.k = "ts" -> cell
      [] OTHER -> NA

\* lines 287-292: the valid timestamps of the column, in row order
DatetimeSeries(col) ==
    LET series == IF ~is_datetime64_any_dtype(col.dtype)
                  THEN [i \in 1..Len(col.cells) |-> Coerce(col.cells[i])]
                  ELSE col.cells
    IN Values(series)

\* Series.sort_values().diff().dropna()
Diffs(sorted) == [i \in 1..(Len(sorted) - 1) |-> sorted[i + 1] - sorted[i]]

Occurrences(xs, x) == Cardinality({i \in 1..Len(xs) : xs[i] = x})

\* Series.mode()[0]: the smallest of the most frequent values
Mode(xs) ==
    LET vals == {xs[i] : i \in 1..Len(xs)}
        best == {x \in vals : \A y \in vals : Occurrences(xs, y) <= Occurrences(xs, x)}
    IN CHOOSE x \in best : \A y \in best : x <= y

\* line 303: series.max() - series.min() does not fit a Timedelta
DatetimeRaises(s, name) ==
    LET sorted == SortValues(DatetimeSeries(ColumnOf(s.df.columns, name))) IN
    /\ Len(sorted) > 0
    /\ (sorted[Len(sorted)] - sorted[1]) \notin TimedeltaRange

\* _profile_datetime, when it does not raise
profile_datetime(s, name) ==
    LET col == ColumnOf(s.df.columns, name)
        series == DatetimeSeries(col)
        sorted == SortValues(series)
        n == Len(series)
        time_diffs == Diffs(sorted)
        base == [ count |-> n,
                  missing |-> isna_sum(col.cells),
                  missing_pct |-> Div(isna_sum(col.cells) * 100, s.df.index),
                  min_date |-> sorted[1],
                  max_date |-> sorted[n],
                  range_days |-> sorted[n] - sorted[1] ]
    IN IF n = 0 THEN [error |-> "No valid datetime values"]
       ELSE IF n > 1 /\ Mode(time_diffs) # 0
            THEN [inferred_frequency |-> Mode(time_diffs)] @@ base
            ELSE base

\* _profile_all_datetime
profile_all_datetime(s, classification) ==
    [nm \in Keys(classification["datetime"]) |-> profile_datetime(s, nm)]

(************************** correlation analyzer ***************************)
\* the rows, in order, where both columns hold a value
CompleteRows(xs, ys, i) ==
    SelectSeq([j \in 1..(Len(xs) - i + 1) |-> j + i - 1],
              LAMBDA j : xs[j].k # "na" /\ ys[j].k # "na")

\* DataFrame.corr() on one pair: Pearson's r over the rows where both values
\* are present, kept as its sign and its square cov^2 / (var_x * var_y);
\* nan when a variance is zero
Pearson(a, b) ==
    LET idx == CompleteRows(a.cells, b.cells, 1)
        xs == [i \in 1..Len(idx) |-> a.cells[idx[i]].v]
        ys == [i \in 1..Len(idx) |-> b.cells[idx[i]].v]
        n == Len(idx)
        sx == SumSeq(xs)
        sy == SumSeq(ys)
        cov == n * SumSeq([i \in 1..n |-> xs[i] * ys[i]]) - sx * sy
        vx == n * SumSeq([i \in 1..n |-> xs[i] * xs[i]]) - sx * sx
        vy == n * SumSeq([i \in 1..n |-> ys[i] * ys[i]]) - sy * sy
    IN [ sgn |-> IF vx * vy = 0 THEN 0 ELSE IF cov > 0 THEN 1 ELSE IF cov < 0 THEN -1 ELSE 0,
         sq |-> Div(cov * cov, vx * vy) ]

\* faulty variant: the threshold itself does not count as strong
IsStrongExclusive(r, threshold) ==
    /\ ~IsNaN(r.sq)
    /\ \/ threshold[1] < 0
       \/ FLt(FMul(threshold, threshold), r.sq)

\* line 344: abs(corr_value) >= self.correlation_threshold
IsStrong(r, threshold) ==
    /\ ~IsNaN(r.sq)
    /\ \/ threshold[1] < 0
       \/ FLe(FMul(threshold, threshold), r.sq)

\* the pairs (i, j), i < j, in the order the loops of lines 338-339 visit them
RECURSIVE PairsFrom(_, _, _)
PairsFrom(i, j, n) ==
    IF i >= n THEN <<>>
    ELSE IF j > n THEN PairsFrom(i + 1, i + 2, n)
    ELSE << <<i, j>> >> \o PairsFrom(i, j + 1, n)

\* faulty variant: a record goes in front of the records it ties with
RECURSIVE InsertByAbsBeforeTies(_, _)
InsertByAbsBeforeTies(x, sorted) ==
    IF sorted = <<>> THEN <<x>>
    ELSE IF FLe(Head(sorted).correlation.sq, x.correlation.sq)
         THEN <<x>> \o sorted
         ELSE <<Head(sorted)>> \o InsertByAbsBeforeTies(x, Tail(sorted))

\* list.sort(key=abs(correlation), reverse=True): stable, larger first
RECURSIVE InsertByAbs(_, _)
InsertByAbs(x, sorted) ==
    IF sorted = <<>> THEN <<x>>
    ELSE IF FLt(Head(sorted).correlation.sq, x.correlation.sq)
         THEN <<x>> \o sorted
         ELSE <<Head(sorted)>> \o InsertByAbs(x, Tail(sorted))

RECURSIVE SortByAbs(_)
SortByAbs(xs) ==
    IF xs = <<>> THEN <<>>
    ELSE InsertByAbs(xs[Len(xs)], SortByAbs(SubSeq(xs, 1, Len(xs) - 1)))

RECURSIVE StrongOf(_, _, _)
StrongOf(s, numeric_cols, pairs) ==
    IF pairs = <<>> THEN <<>>
    ELSE LET col1 == numeric_cols[Head(pairs)[1]]
             col2 == numeric_cols[Head(pairs)[2]]
             corr_value == Pearson(ColumnOf(s.df.columns, col1),
                                   ColumnOf(s.df.columns, col2))
         IN (IF IsStrong(corr_value, s.correlation_threshold)
             THEN << [ column1 |-> col1, column2 |-> col2,
                       correlation |-> corr_value,
                       strength |-> IF corr_value.sgn > 0 THEN "positive"
                                    ELSE "negative" ] >>
             ELSE <<>>) \o StrongOf(s, numeric_cols, Tail(pairs))

\* _compute_correlations (the matrix is left out)
compute_correlations(s, classification) ==
    LET numeric_cols == classification["numeric"] IN
    IF Len(numeric_cols) < 2 THEN [strong_correlations |-> <<>>]
    ELSE [strong_correlations |->
             SortByAbs(StrongOf(s, numeric_cols, PairsFrom(1, 2, Len(numeric_cols))))]

(***************************** quality auditor *****************************)
Row(df, i) == [c \in 1..Len(df.columns) |-> df.columns[c].cells[i]]

\* faulty variant: every row that has a twin counts, the first one too
DuplicatedKeepNone(df) ==
    IF Len(df.columns) = 0 THEN 0
    ELSE Cardinality({i \in 1..df.index :
                         \E j \in (1..df.index) \ {i} : Row(df, j) = Row(df, i)})

\* DataFrame.duplicated().sum(): rows equal to an earlier row; an empty
\* frame (no row or no column) has none
duplicated_sum(df) ==
    IF Len(df.columns) = 0 THEN 0
    ELSE Cardinality({i \in 1..df.index : \E j \in 1..(i - 1) : Row(df, j) = Row(df, i)})

\* lines 375-377: the columns with at most one distinct value
RECURSIVE ConstantColumns(_)
ConstantColumns(cols) ==
    IF cols = <<>> THEN <<>>
    ELSE (IF nunique(Head(cols).cells) <= 1 THEN <<Head(cols).name>> ELSE <<>>)
         \o ConstantColumns(Tail(cols))

\* faulty variant: a column exactly on the threshold is not flagged
RECURSIVE HighMissingExclusive(_, _, _)
HighMissingExclusive(cols, nrows, threshold) ==
    IF cols = <<>> THEN <<>>
    ELSE LET missing_pct == Div(isna_sum(Head(cols).cells), nrows) IN
         (IF ~IsNaN(missing_pct) /\ FLt(threshold, missing_pct)
          THEN << [ column |-> Head(cols).name,
                    missing_pct |-> FMul(missing_pct, Frac(100, 1)) ] >>
          ELSE <<>>) \o HighMissingExclusive(Tail(cols), nrows, threshold)

\* lines 379-388: the columns with a high fraction of missing values
RECURSIVE HighMissing(_, _, _)
HighMissing(cols, nrows, threshold) ==
    IF cols = <<>> THEN <<>>
    ELSE LET missing_pct == Div(isna_sum(Head(cols).cells), nrows) IN
         (IF FGe(missing_pct, threshold)
          THEN << [ column |-> Head(cols).name,
                    missing_pct |-> FMul(missing_pct, Frac(100, 1)) ] >>
          ELSE <<>>) \o HighMissing(Tail(cols), nrows, threshold)

\* _check_data_quality
check_data_quality(s) ==
    [ duplicate_rows |-> duplicated_sum(s.df),
      duplicate_rows_pct |-> Div(duplicated_sum(s.df) * 100, s.df.index),
      constant_columns |-> ConstantColumns(s.df.columns),
      high_missing_columns |->
          HighMissing(s.df.columns, s.df.index, s.high_missing_threshold) ]

(******************************* exporters *********************************)
None == "None"

\* the first n elements of a list: xs[:n]
Prefix(xs, n) == SubSeq(xs, 1, IF Len(xs) < n THEN Len(xs) ELSE n)

\* to_json, lines 398-425: the simplified dict handed to json.dumps; the
\* JSON text is represented by the value it encodes
to_json(s) ==
    LET results == s.profile_results
        numeric_stats == Get(results, "numeric_stats", <<>>)
        categorical_stats == Get(results, "categorical_stats", <<>>)
        numeric_summary ==
            [col \in DOMAIN numeric_stats |->
                [ type |-> "numeric",
                  mean |-> Get(numeric_stats[col], "mean", None),
                  median |-> Get(numeric_stats[col], "median", None),
                  min |-> Get(numeric_stats[col], "min", None),
                  max |-> Get(numeric_stats[col], "max", None) ]]
        categorical_summary ==
            [col \in DOMAIN categorical_stats |->
                [ type |-> "categorical",
                  unique_count |-> Get(categorical_stats[col], "unique_count", None),
                  top_values |->
                      LET top == Prefix(Get(categorical_stats[col], "top_categories", <<>>), 3)
                      IN [i \in 1..Len(top) |-> top[i].value] ]]
    IN [ json |->
           [ overview |-> Get(results, "overview", <<>>),
             column_types |-> Get(results, "columns", <<>>),
             \* the categorical loop runs second and overwrites
             sample_statistics |-> categorical_summary @@ numeric_summary,
             strong_correlations |->
                 Get(Get(results, "correlations", <<>>), "strong_correlations", <<>>),
             data_quality |-> Get(results, "data_quality", <<>>) ] ]

\* f"{x:.1f}%": the number in tenths, rounded; nan stays nan
OneDecimal(x) ==
    IF IsNaN(x) THEN "nan"
    ELSE IF x[1] >= 0 THEN (20 * x[1] + x[2]) \div (2 * x[2])
    ELSE -((20 * (-x[1]) + x[2]) \div (2 * x[2]))

\* line 462: stats.get('top_categories', [{}])[0] on an empty list
TablesRaise(s) ==
    LET categorical_stats == Get(s.profile_results, "categorical_stats", <<>>) IN
    \E col \in DOMAIN categorical_stats :
        Get(categorical_stats[col], "top_categories", <<1>>) = <<>>

\* to_streamlit_tables, lines 434-475, when it does not raise
to_streamlit_tables(s) ==
    LET results == s.profile_results
        columns == Get(results, "columns", <<>>)
        numeric_stats == Get(results, "numeric_stats", <<>>)
        categorical_stats == Get(results, "categorical_stats", <<>>)
        quality == Get(results, "data_quality", <<>>)
        base ==
            [ overview |-> <<Get(results, "overview", <<>>)>>,
              columns |-> [type \in DOMAIN columns |-> columns[type]],
              quality |->
                  [ duplicate_rows |-> Get(quality, "duplicate_rows", 0),
                    duplicate_pct |->
                        OneDecimal(Get(quality, "duplicate_rows_pct", Frac(0, 1))),
                    constant_columns |-> Len(Get(quality, "constant_columns", <<>>)),
                    high_missing_columns |->
                        Len(Get(quality, "high_missing_columns", <<>>)) ] ]
        numeric == IF DOMAIN numeric_stats # {}
                   THEN ("numeric" :> numeric_stats) ELSE <<>>
        categorical ==
            IF DOMAIN categorical_stats # {}
            THEN ("categorical" :>
                     [col \in DOMAIN categorical_stats |->
                         [ unique_count |-> categorical_stats[col].unique_count,
                           missing_pct |-> OneDecimal(categorical_stats[col].missing_pct),
                           top_value |-> categorical_stats[col].top_categories[1].value ]])
            ELSE <<>>
    IN numeric @@ categorical @@ base

(******************************** LLM client *******************************)
\* groq_client.py line 44: llm_config.get('max_retries', 3)
DefaultMaxRetries == 3

\* what one chat.completions.create call can do: raise, or answer with a
\* message content that is JSON, JSON inside a ``` fence, other text, or None
ApiOutcomes == {"api_error", "json", "fenced_json", "text", "none"}

\* _parse_json_response: the fence is cut away, then json.loads; other text
\* raises JSONDecodeError, a None content raises TypeError
parse_json_response(content) ==
    CASE content = "json" -> [ok |-> TRUE, value |-> [parsed |-> "json"]]
      [] content = "fenced_json" -> [ok |-> TRUE, value |-> [parsed |-> "json"]]
      [] content = "text" -> [ok |-> FALSE, value |-> "JSONDecodeError"]
      [] OTHER -> [ok |-> FALSE, value |-> "TypeError"]

\* GroqClient.__init__, lines 38-43, and the arguments of generate
GroqCall(cfg, response_format) ==
    [ max_retries |-> Get(Get(cfg, "llm", <<>>), "max_retries", DefaultMaxRetries),
      response_format |-> response_format,
      attempt |-> 0,
      log |-> <<>>,
      slept |-> <<>>,
      status |-> "running",
      exc |-> "none",
      \* nothing returned yet
      result |-> <<>> ]

\* faulty variant: a failed attempt is always followed by a wait and the
\* next round of the loop
AfterFailureNoRaise(g, outcome) ==
    [g EXCEPT !.log = Append(g.log, outcome),
              !.slept = Append(g.slept, Pow(2, g.attempt)),
              !.attempt = g.attempt + 1]

\* the attempt has failed: lines 120-128 (and 97-104 for unparseable JSON
\* with an attempt left)
AfterFailure(g, outcome) ==
    IF g.attempt < g.max_retries - 1
    THEN [g EXCEPT !.log = Append(g.log, outcome),
                   !.slept = Append(g.slept, Pow(2, g.attempt)),
                   !.attempt = g.attempt + 1]
    ELSE [g EXCEPT !.log = Append(g.log, outcome),
                   !.status = "raised",
                   !.exc = "RuntimeError"]

\* lines 107-118: the result dict is returned
AfterSuccess(g, outcome, content) ==
    [g EXCEPT !.log = Append(g.log, outcome),
              !.status = "returned",
              !.result = [content |-> content]]

\* one round of the loop of lines 76-128
generate_round(g, outcome) ==
    IF outcome = "api_error" THEN AfterFailure(g, outcome)
    ELSE IF g.response_format = "json"
         THEN IF parse_json_response(outcome).ok
              THEN AfterSuccess(g, outcome, parse_json_response(outcome).value)
              ELSE AfterFailure(g, outcome)
         ELSE AfterSuccess(g, outcome, outcome)

(*************************** visualization planner *************************)
\* The planner holds the table the profiler was given (self.df, line 20) and
\* the dict profile() returned (self.profile_results, line 21).  A plot
\* specification is a dict; the 'columns' of a plot the LLM sent is
\* [list |-> names] or, when it is a bare string, [scalar |-> name]; the
\* 'columns' of a plot the planner returns is the list itself.

Letters == << "a", "b", "c", "d", "e", "f", "g", "h", "i", "j", "k", "l", "m",
              "n", "o", "p", "q", "r", "s", "t", "u", "v", "w", "x", "y", "z" >>

\* ord(ch) for the characters of the column names
CharCode(ch) ==
    IF ch = "-" THEN 45
    ELSE IF ch = "_" THEN 95
    ELSE 96 + (CHOOSE i \in 1..Len(Letters) : Letters[i] = ch)

\* a < b on Python strings
RECURSIVE StrLess(_, _)
StrLess(a, b) ==
    IF b = <<>> THEN FALSE
    ELSE IF a = <<>> THEN TRUE
    ELSE IF CharCode(Head(a)) # CharCode(Head(b))
         THEN CharCode(Head(a)) < CharCode(Head(b))
         ELSE StrLess(Tail(a), Tail(b))

\* sorted(columns) on a list of strings
RECURSIVE InsertName(_, _)
InsertName(nm, sorted) ==
    IF sorted = <<>> THEN <<nm>>
    ELSE IF StrLess(nm, Head(sorted)) THEN <<nm>> \o sorted
    ELSE <<Head(sorted)>> \o InsertName(nm, Tail(sorted))

RECURSIVE SortedNames(_)
SortedNames(names) ==
    IF names = <<>> THEN <<>>
    ELSE InsertName(names[Len(names)], SortedNames(SubSeq(names, 1, Len(names) - 1)))

\* '-'.join(names)
RECURSIVE Join(_)
Join(names) ==
    IF names = <<>> THEN <<>>
    ELSE IF Len(names) = 1 THEN names[1]
    ELSE names[1] \o <<"-">> \o Join(Tail(names))

\* faulty variant: the columns are joined in the order given
PlotSignatureUnsorted(plot_type, columns) ==
    <<plot_type, "_">> \o Join(columns)

\* line 101: f"{plot_type}_{'-'.join(sorted(columns))}"
plot_signature(plot_type, columns) ==
    <<plot_type, "_">> \o Join(SortedNames(columns))

valid_plot_types == {"bar", "line", "hist", "box", "scatter", "heatmap"}

\* profile_results.get('columns', {}).get(class, [])
ColumnsOfClass(profile_results, class) ==
    Get(Get(profile_results, "columns", <<>>), class, <<>>)

\* col in self.df.columns
InTable(df, nm) == \E c \in 1..Len(df.columns) : df.columns[c].name = nm

\* lines 89-91: a 'columns' that is no list becomes a one-element list
AsList(columns) ==
    IF "scalar" \in DOMAIN columns THEN <<columns.scalar>> ELSE columns.list

\* faulty variant: the filter keeps the ID columns
KeepExisting(df, id_columns, columns) ==
    SelectSeq(columns, LAMBDA nm : InTable(df, nm))

\* line 94: the columns that exist in the table and are no ID columns
KeepValid(df, id_columns, columns) ==
    SelectSeq(columns, LAMBDA nm : InTable(df, nm) /\ nm \notin Keys(id_columns))

\* lines 110-116: a bar plot with a column of at most one distinct value
is_single_category(df, plot_type, columns) ==
    /\ plot_type = "bar"
    /\ \E i \in 1..Len(columns) : nunique(ColumnOf(df.columns, columns[i]).cells) <= 1

\* the loop of lines 77-138 from plot i on; seen_plots is the set of
\* signatures met so far
RECURSIVE ValidateFrom(_, _, _, _, _)
ValidateFrom(df, profile_results, plots, i, seen_plots) ==
    IF i > Len(plots) THEN <<>>
    ELSE LET plot == plots[i]
             rest(seen) == ValidateFrom(df, profile_results, plots, i + 1, seen)
         IN IF "plot_type" \notin DOMAIN plot \/ "columns" \notin DOMAIN plot
            THEN rest(seen_plots)
            ELSE IF plot.plot_type \notin valid_plot_types THEN rest(seen_plots)
            ELSE LET columns == KeepValid(df, ColumnsOfClass(profile_results, "id"),
                                          AsList(plot.columns))
                     signature == plot_signature(plot.plot_type, columns)
                 IN IF Len(columns) = 0 THEN rest(seen_plots)
                    ELSE IF signature \in seen_plots THEN rest(seen_plots)
                    ELSE IF is_single_category(df, plot.plot_type, columns)
                         THEN rest(seen_plots \cup {signature})
                         ELSE <<[plot EXCEPT !.columns = columns]>>
                              \o rest(seen_plots \cup {signature})

\* _validate_plots
validate_plots(df, profile_results, plots) ==
    ValidateFrom(df, profile_results, plots, 1, {})

\* any(p['plot_type'] == plot_type and p['columns'] == columns for p in plots)
is_duplicate(plots, plot_type, columns) ==
    \E i \in 1..Len(plots) : plots[i].plot_type = plot_type /\ plots[i].columns = columns

FallbackPlot(plot_type, columns, reason) ==
    [plot_type |-> plot_type, columns |-> columns, business_reason |-> reason]

\* lines 165-175: numeric distributions, from column i on
RECURSIVE NumericDistributions(_, _, _, _, _)
NumericDistributions(plots, numeric_cols, i, count, attempts) ==
    IF i > Len(numeric_cols) \/ Len(plots) >= count THEN plots
    ELSE LET plot_type == IF attempts = 1 THEN "hist" ELSE "box"
             col == numeric_cols[i]
         IN NumericDistributions(
                IF is_duplicate(plots, plot_type, <<col>>) THEN plots
                ELSE Append(plots, FallbackPlot(plot_type, <<col>>, "distribution")),
                numeric_cols, i + 1, count, attempts)

\* lines 178-187: categorical counts
RECURSIVE CategoricalCounts(_, _, _, _, _)
CategoricalCounts(df, plots, categorical_cols, i, count) ==
    IF i > Len(categorical_cols) \/ Len(plots) >= count THEN plots
    ELSE LET col == categorical_cols[i] IN
         CategoricalCounts(
             df,
             IF nunique(ColumnOf(df.columns, col).cells) > 1
                /\ ~is_duplicate(plots, "bar", <<col>>)
             THEN Append(plots, FallbackPlot("bar", <<col>>, "counts"))
             ELSE plots,
             categorical_cols, i + 1, count)

\* lines 192-200: the first numeric column by each category, not checked
\* for duplicates
RECURSIVE NumericByCategory(_, _, _, _, _, _)
NumericByCategory(df, plots, num_col, categorical_cols, i, count) ==
    IF i > Len(categorical_cols) \/ Len(plots) >= count THEN plots
    ELSE LET cat_col == categorical_cols[i] IN
         NumericByCategory(
             df,
             IF nunique(ColumnOf(df.columns, cat_col).cells) > 1
             THEN Append(plots, FallbackPlot("bar", <<cat_col, num_col>>, "by category"))
             ELSE plots,
             num_col, categorical_cols, i + 1, count)

\* lines 205-211: each numeric column over the first date column
RECURSIVE TimeSeries(_, _, _, _, _)
TimeSeries(plots, date_col, numeric_cols, i, count) ==
    IF i > Len(numeric_cols) \/ Len(plots) >= count THEN plots
    ELSE TimeSeries(Append(plots, FallbackPlot("line", <<date_col, numeric_cols[i]>>,
                                               "over time")),
                    date_col, numeric_cols, i + 1, count)

\* priorities 1 to 3 of one pass of the loop of line 161
PrioritiesOneToThree(df, profile_results, plots, count, attempts) ==
    LET numeric_cols == ColumnsOfClass(profile_results, "numeric")
        categorical_cols == ColumnsOfClass(profile_results, "categorical")
        p1 == NumericDistributions(plots, numeric_cols, 1, count, attempts)
        p2 == CategoricalCounts(df, p1, categorical_cols, 1, count)
    IN IF numeric_cols # <<>> /\ categorical_cols # <<>>
       THEN NumericByCategory(df, p2, numeric_cols[1], categorical_cols, 1, count)
       ELSE p2

\* one pass of the loop of line 161; the date columns are read under the key
\* 'date' (line 156)
FallbackPass(df, profile_results, plots, count, attempts) ==
    LET numeric_cols == ColumnsOfClass(profile_results, "numeric")
        date_cols == ColumnsOfClass(profile_results, "date")
        p3 == PrioritiesOneToThree(df, profile_results, plots, count, attempts)
    IN IF date_cols # <<>> /\ numeric_cols # <<>>
       THEN TimeSeries(p3, date_cols[1], numeric_cols, 1, count)
       ELSE p3

\* passes made in the loop of line 161
FallbackPasses == 3

\* the loop of line 161: `attempts` passes have been made
RECURSIVE FallbackLoop(_, _, _, _, _)
FallbackLoop(df, profile_results, plots, count, attempts) ==
    IF Len(plots) < count /\ attempts < FallbackPasses
    THEN FallbackLoop(df, profile_results,
                      FallbackPass(df, profile_results, plots, count, attempts + 1),
                      count, attempts + 1)
    ELSE plots

\* _get_fallback_plots, for a count >= 0
get_fallback_plots(df, profile_results, count) ==
    Prefix(FallbackLoop(df, profile_results, <<>>, count, 0), count)

\* lines 247-265: the plan from the LLM's result
PlanFromResult(df, profile_results, content, target_plots) ==
    LET plots == Get(content, "plots", <<>>)
        valid_plots == validate_plots(df, profile_results, plots)
        filled == IF Len(valid_plots) < target_plots
                  THEN valid_plots
                       \o get_fallback_plots(df, profile_results,
                                             target_plots - Len(valid_plots))
                  ELSE valid_plots
    IN Prefix(filled, target_plots)

\* plan_visualizations: reply is what generate_visualization_plan did,
\* [raised |-> error], [content |-> a JSON object] or [items |-> a JSON
\* list]; a list has no .get and ends in the handler of line 267 like a
\* raised error
plan_visualizations(df, profile_results, reply, target_plots) ==
    IF "content" \notin DOMAIN reply
    THEN get_fallback_plots(df, profile_results, target_plots)
    ELSE PlanFromResult(df, profile_results, reply.content, target_plots)

(******************************* inputs ************************************)
SeqsUpTo(S, n) == UNION {[1..m -> S] : m \in 0..n}

\* the values of a float64 / int64 column, of a datetime64 column and of an
\* object column
NumCells == {NA, Num(0), Num(1), Num(9)}
TsCells == {NA, Ts(0), Ts(1), Ts(4)}
ObjCells == {NA, Str(1), DateStr(0), DateStr(4)}

\* the columns of one name: every cell sequence of every data type (an
\* int64 column holds no missing value)
ColumnsNamed(nm) ==
    {[name |-> nm, dtype |-> "float64", cells |-> c] : c \in SeqsUpTo(NumCells, MaxRows)}
    \cup {[name |-> nm, dtype |-> "int64", cells |-> c] :
              c \in SeqsUpTo(NumCells \ {NA}, MaxRows)}
    \cup {[name |-> nm, dtype |-> "datetime64[ns]", cells |-> c] :
              c \in SeqsUpTo(TsCells, MaxRows)}
    \cup {[name |-> nm, dtype |-> "object", cells |-> c] : c \in SeqsUpTo(ObjCells, MaxRows)}

PlainName == <<"a", "b">>
LowerIdName == <<"x", "i", "d">>
UpperIdName == <<"x", "I", "D">>

\* a second, numeric column of n rows: 9, 1, 1, ...
Companion(n) ==
    [ name |-> <<"w">>, dtype |-> "float64",
      cells |-> [i \in 1..n |-> IF i = 1 THEN Num(9) ELSE Num(1)] ]

DefaultConfig == [app |-> "insight"]
UpperPatternConfig == [profiling |-> [id_column_patterns |-> << <<"I", "D">> >>]]
NegativeCardinalityConfig ==
    [profiling |-> [ high_cardinality_threshold |-> Frac(-1, 1),
                     high_missing_threshold |-> Frac(-1, 2) ]]
NegativeMultiplierConfig ==
    [profiling |-> [ outlier_multiplier |-> Frac(-1, 1),
                     correlation_threshold |-> Frac(-1, 2),
                     high_cardinality_threshold |-> Frac(2, 1) ]]
OtherMethodConfig ==
    [profiling |-> [ outlier_method |-> "zscore",
                     high_cardinality_threshold |-> Frac(1, 2) ]]

Configs == { DefaultConfig, UpperPatternConfig, NegativeCardinalityConfig,
             NegativeMultiplierConfig, OtherMethodConfig }

Frame(cols) == [index |-> IF cols = <<>> THEN 0 ELSE Len(cols[1].cells), columns |-> cols]

Inputs ==
    {<<Frame(<<c>>), cfg>> : c \in ColumnsNamed(PlainName), cfg \in Configs}
    \cup {<<Frame(<<c>>), cfg>> :
              c \in ColumnsNamed(LowerIdName) \cup ColumnsNamed(UpperIdName),
              cfg \in {DefaultConfig, UpperPatternConfig}}
    \cup {<<Frame(<<c, Companion(Len(c.cells))>>), DefaultConfig>> :
              c \in ColumnsNamed(PlainName)}
    \cup {<<[index |-> n, columns |-> <<>>], DefaultConfig>> : n \in 0..1}

\* the values of a text column
TextCells == {NA, Str(1), Str(2), Str(3)}

TopOneConfig == [profiling |-> [top_categories_count |-> 1]]
TopTwoConfig == [profiling |-> [top_categories_count |-> 2]]

\* a datetime column whose first and last timestamps are four centuries
\* apart
FarApartDates ==
    [name |-> PlainName, dtype |-> "datetime64[ns]", cells |-> <<Ts(0), Ts(4)>>]

\* tables of one text column, under three sizes of the top-categories list
TextInputs ==
    {<<Frame(<<[name |-> PlainName, dtype |-> "object", cells |-> c]>>), cfg>> :
        c \in SeqsUpTo(TextCells, MaxRows),
        cfg \in {DefaultConfig, TopOneConfig, TopTwoConfig}}
    \cup {<<Frame(<<FarApartDates>>), DefaultConfig>>}

XName == <<"x">>
YName == <<"y">>
ZName == <<"z">>

FloatColumn(nm, c) == [name |-> nm, dtype |-> "float64", cells |-> c]

\* the column 0, 1, ..., n - 1
Ramp(n) == [i \in 1..n |-> Num(i - 1)]

\* the column of the negated values
Negated(cells) ==
    [i \in 1..Len(cells) |-> IF cells[i].k = "na" THEN NA ELSE Num(-cells[i].v)]

\* configurations that keep the cardinality rule from firing, with three
\* correlation thresholds
UnreachableCardinality == [high_cardinality_threshold |-> Frac(2, 1)]
CorrelationConfigs ==
    { [profiling |-> UnreachableCardinality],
      [profiling |-> [correlation_threshold |-> Frac(1, 2)] @@ UnreachableCardinality],
      [profiling |-> [correlation_threshold |-> Frac(1, 1)] @@ UnreachableCardinality] }

\* the single numeric column 1, 2, 3, 4, 100
ColumnWithOutlier == FloatColumn(XName, <<Num(1), Num(2), Num(3), Num(4), Num(100)>>)

\* a table of 100 rows, the last 10 of them repeating the first 10
HundredRows ==
    FloatColumn(XName, [i \in 1..100 |-> IF i <= 90 THEN Num(i) ELSE Num(i - 90)])

\* a text column of 100 dates followed by a text that is no date
DatesThenText ==
    [ name |-> PlainName, dtype |-> "object",
      cells |-> [i \in 1..(HeadCount + 1) |->
                    IF i > HeadCount THEN Str(1) ELSE DateStr(i % 2)] ]

\* tables of numeric columns: three columns x, y, z of TableRows rows; two
\* columns x and y = -x; the single-column tables above
NumericInputs ==
    {<<Frame(<< FloatColumn(XName, Ramp(TableRows)), FloatColumn(YName, y),
                FloatColumn(ZName, z) >>), cfg>> :
        y \in [1..TableRows -> {Num(0), Num(1), Num(2)}],
        z \in [1..TableRows -> {Num(0), Num(1), Num(2)}],
        cfg \in CorrelationConfigs}
    \cup {<<Frame(<<FloatColumn(XName, x), FloatColumn(YName, Negated(x))>>),
            DefaultConfig>> :
              x \in SeqsUpTo({NA, Num(1), Num(2), Num(3)}, MaxRows)}
    \cup {<<Frame(<<ColumnWithOutlier>>), cfg>> :
              cfg \in {DefaultConfig, [profiling |-> UnreachableCardinality]}}
    \cup {<<Frame(<<HundredRows>>), DefaultConfig>>,
          <<Frame(<<DatesThenText>>), DefaultConfig>>,
          <<Frame(<<FarApartDates>>), DefaultConfig>>}

\* tables for a caller who profiles more than once
RepeatedInputs ==
    {<<Frame(<<c>>), DefaultConfig>> :
        c \in {d \in ColumnsNamed(PlainName) : d.dtype \in {"object", "datetime64[ns]"}}}
    \cup {<<Frame(<<FloatColumn(XName, x), FloatColumn(YName, Negated(x))>>),
            DefaultConfig>> :
              x \in SeqsUpTo({NA, Num(1), Num(2), Num(3)}, MaxRows)}

\* the columns of the planner's tables, of four rows each: a numeric
\* column, a text column of two categories, a text column of one category, a
\* datetime column and an ID column
CatName == <<"c">>
OneName == <<"k">>
DayName == <<"d">>
GoneName == <<"g">>
PlannerColumns ==
    << FloatColumn(XName, <<Num(1), Num(1), Num(2), Num(5)>>),
       [name |-> CatName, dtype |-> "object", cells |-> <<Str(1), Str(1), Str(2), Str(2)>>],
       [name |-> OneName, dtype |-> "object", cells |-> <<Str(1), Str(1), Str(1), Str(1)>>],
       [name |-> DayName, dtype |-> "datetime64[ns]",
        cells |-> <<Ts(0), Ts(0), Ts(1), Ts(1)>>],
       [name |-> LowerIdName, dtype |-> "int64",
        cells |-> <<Num(1), Num(2), Num(3), Num(4)>>] >>

\* the columns of cols whose position is in keep, in order
Selection(cols, keep) == SelectSeq(cols, LAMBDA c : \E i \in keep : cols[i] = c)

\* every table made of some of these columns, and the table whose datetime
\* statistics cannot be computed
PlannerInputs ==
    {<<Frame(Selection(PlannerColumns, keep)), DefaultConfig>> :
        keep \in SUBSET (1..Len(PlannerColumns))}
    \cup {<<Frame(<<FarApartDates>>), DefaultConfig>>}

\* plot specifications an LLM may send
SuggestedPlots ==
    { [plot_type |-> "hist", columns |-> [list |-> <<XName>>]],
      [plot_type |-> "hist", columns |-> [list |-> <<XName, XName>>]],
      [plot_type |-> "bar", columns |-> [list |-> <<CatName>>]],
      [plot_type |-> "bar", columns |-> [list |-> <<OneName>>]],
      [plot_type |-> "bar", columns |-> [list |-> <<CatName, XName>>]],
      [plot_type |-> "bar", columns |-> [list |-> <<XName, CatName>>]],
      [plot_type |-> "scatter", columns |-> [list |-> <<XName, LowerIdName>>]],
      [plot_type |-> "line", columns |-> [scalar |-> XName]],
      [plot_type |-> "hist", columns |-> [list |-> <<GoneName>>]],
      [plot_type |-> "pie", columns |-> [list |-> <<XName>>]],
      [plot_type |-> "box", columns |-> [list |-> <<>>]],
      [columns |-> [list |-> <<XName>>]],
      [plot_type |-> "box"] }

\* longest list of plots in an LLM reply
MaxPlots == 2

\* what generate_visualization_plan may do: raise, return a JSON list,
\* return a JSON object without 'plots', return one with a list of plots
LlmReplies ==
    { [raised |-> "RuntimeError"], [items |-> <<>>], [content |-> <<>>] }
    \cup {[content |-> [plots |-> plots]] : plots \in SeqsUpTo(SuggestedPlots, MaxPlots)}

\* self.max_plots, the target when num_plots is None
max_plots == 15

\* the numbers of plots asked for
PlotTargets == {2, 5, max_plots}

(**************************** state machine ********************************)
\* nothing outside the DataProfiler has happened
Idle ==
    /\ exported = <<>>
    /\ groq = <<>>
    /\ planner = <<>>
    /\ session = <<>>

Init ==
    /\ \E in \in Inputs : caller_df = in[1] /\ config = in[2]
    /\ self = <<>>
    /\ column_classification = <<>>
    /\ partial = <<>>
    /\ pc = "new"
    /\ exc = "none"
    /\ returned = <<>>
    /\ Idle

\* DataProfiler.__init__: copy the frame, read the options
Construct ==
    /\ pc = "new"
    /\ self' = InitAttributes(caller_df, config)
    /\ pc' = "ready"
    /\ UNCHANGED <<caller_df, config, column_classification, partial, exc, returned, others>>

\* the columns whose name is not in the list
RECURSIVE WithoutColumns(_, _)
WithoutColumns(cols, names) ==
    IF cols = <<>> THEN <<>>
    ELSE (IF \E i \in 1..Len(names) : names[i] = Head(cols).name
          THEN <<>> ELSE <<Head(cols)>>) \o WithoutColumns(Tail(cols), names)

\* faulty variant: the classifier drops the id columns from self.df
ClassifyDroppingIds ==
    /\ pc = "ready"
    /\ column_classification' = classify_columns(self)
    /\ self' = [self EXCEPT !.df.columns =
                    WithoutColumns(self.df.columns, classify_columns(self)["id"])]
    /\ pc' = "overview"
    /\ UNCHANGED <<caller_df, config, partial, exc, returned, others>>

\* faulty variant: profile() rejects an empty frame before its first stage
ClassifyShapeChecked ==
    /\ pc = "ready"
    /\ IF self.df.index = 0 \/ Len(self.df.columns) = 0
       THEN /\ pc' = "raised"
            /\ exc' = "InputShapeError"
            /\ UNCHANGED column_classification
       ELSE /\ column_classification' = classify_columns(self)
            /\ pc' = "overview"
            /\ UNCHANGED exc
    /\ UNCHANGED <<caller_df, config, self, partial, returned, others>>

\* profile(), line 57
Classify ==
    /\ pc = "ready"
    /\ column_classification' = classify_columns(self)
    /\ pc' = "overview"
    /\ UNCHANGED <<caller_df, config, self, partial, exc, returned, others>>

\* profile(), lines 61-62
GetOverview ==
    /\ pc = "overview"
    /\ partial' = ("overview" :> get_overview(self))
                  @@ ("columns" :> column_classification)
    /\ pc' = "numeric"
    /\ UNCHANGED <<caller_df, config, self, column_classification, exc, returned, others>>

\* profile(), line 63
ProfileAllNumeric ==
    /\ pc = "numeric"
    /\ partial' = ("numeric_stats" :> profile_all_numeric(self, column_classification))
                  @@ partial
    /\ pc' = "categorical"
    /\ UNCHANGED <<caller_df, config, self, column_classification, exc, returned, others>>

\* profile(), line 64
ProfileAllCategorical ==
    /\ pc = "categorical"
    /\ partial' = ("categorical_stats" :>
                       profile_all_categorical(self, column_classification))
                  @@ partial
    /\ pc' = "datetime"
    /\ UNCHANGED <<caller_df, config, self, column_classification, exc, returned, others>>

\* the column is in the datetime list
InDatetimeClass(nm) ==
    \E i \in 1..Len(column_classification["datetime"]) :
        column_classification["datetime"][i] = nm

\* the column as _profile_datetime would leave it after converting in place
CoercedInPlace(col) ==
    IF is_datetime64_any_dtype(col.dtype) THEN col
    ELSE [col EXCEPT !.dtype = "datetime64[ns]",
                     !.cells = [i \in 1..Len(col.cells) |-> Coerce(col.cells[i])]]

\* faulty variant: _profile_datetime assigns the converted column to self.df
ProfileAllDatetimeInPlace ==
    /\ pc = "datetime"
    /\ LET names == column_classification["datetime"] IN
       \/ /\ \E i \in 1..Len(names) : DatetimeRaises(self, names[i])
          /\ pc' = "raised"
          /\ exc' = "OutOfBoundsDatetime"
          /\ UNCHANGED <<partial, self>>
       \/ /\ \A i \in 1..Len(names) : ~DatetimeRaises(self, names[i])
          /\ partial' = ("datetime_stats" :>
                             profile_all_datetime(self, column_classification))
                        @@ partial
          /\ self' = [self EXCEPT !.df.columns =
                         [c \in 1..Len(self.df.columns) |->
                             IF InDatetimeClass(self.df.columns[c].name)
                             THEN CoercedInPlace(self.df.columns[c])
                             ELSE self.df.columns[c]]]
          /\ pc' = "correlations"
          /\ UNCHANGED exc
    /\ UNCHANGED <<caller_df, config, column_classification, returned, others>>

\* profile(), line 65: no handler encloses _profile_datetime, so what it
\* raises leaves profile()
ProfileAllDatetime ==
    /\ pc = "datetime"
    /\ LET names == column_classification["datetime"] IN
       \/ /\ \E i \in 1..Len(names) : DatetimeRaises(self, names[i])
          /\ pc' = "raised"
          /\ exc' = "OutOfBoundsDatetime"
          /\ UNCHANGED partial
       \/ /\ \A i \in 1..Len(names) : ~DatetimeRaises(self, names[i])
          /\ partial' = ("datetime_stats" :>
                             profile_all_datetime(self, column_classification))
                        @@ partial
          /\ pc' = "correlations"
          /\ UNCHANGED exc
    /\ UNCHANGED <<caller_df, config, self, column_classification, returned, others>>

\* faulty variant: the correlation analyzer runs right after the overview
ComputeCorrelationsEarly ==
    /\ pc = "numeric"
    /\ "correlations" \notin DOMAIN partial
    /\ partial' = ("correlations" :> compute_correlations(self, column_classification))
                  @@ partial
    /\ UNCHANGED <<caller_df, config, self, column_classification, pc, exc, returned,
                   others>>

\* profile(), line 66
ComputeCorrelations ==
    /\ pc = "correlations"
    /\ partial' = ("correlations" :> compute_correlations(self, column_classification))
                  @@ partial
    /\ pc' = "quality"
    /\ UNCHANGED <<caller_df, config, self, column_classification, exc, returned, others>>

\* profile(), lines 67-71: the last entry, the assignment and the return
CheckDataQuality ==
    /\ pc = "quality"
    /\ self' = [self EXCEPT !.profile_results =
                    ("data_quality" :> check_data_quality(self)) @@ partial]
    /\ returned' = Append(returned, ("data_quality" :> check_data_quality(self)) @@ partial)
    /\ pc' = "done"
    /\ UNCHANGED <<caller_df, config, column_classification, partial, exc, others>>

Next ==
    \/ Construct
    \/ Classify
    \/ GetOverview
    \/ ProfileAllNumeric
    \/ ProfileAllCategorical
    \/ ProfileAllDatetime
    \/ ComputeCorrelations
    \/ CheckDataQuality

Spec == Init /\ [][Next]_vars

\* the caller calls profile() on the same DataProfiler once more: a new
\* frame with new locals
ProfileAgain ==
    /\ pc = "done"
    /\ Len(returned) < MaxCalls
    /\ column_classification' = <<>>
    /\ partial' = <<>>
    /\ pc' = "ready"
    /\ UNCHANGED <<caller_df, config, self, exc, returned, others>>

\* the caller builds a second DataProfiler from the same table and
\* configuration, to call profile() on it
ConstructAgain ==
    /\ pc = "done"
    /\ Len(returned) < MaxCalls
    /\ self' = InitAttributes(caller_df, config)
    /\ column_classification' = <<>>
    /\ partial' = <<>>
    /\ pc' = "ready"
    /\ UNCHANGED <<caller_df, config, exc, returned, others>>

\* the caller asks the finished DataProfiler for its JSON export
ToJson ==
    /\ pc = "done"
    /\ exported = <<>>
    /\ exported' = to_json(self)
    /\ UNCHANGED <<caller_df, config, self, column_classification, partial, pc, exc,
                   returned, groq, planner, session>>

\* the caller asks the finished DataProfiler for its display tables
ToStreamlitTables ==
    /\ pc = "done"
    /\ exported = <<>>
    /\ \/ /\ TablesRaise(self)
          /\ exported' = [raised |-> "IndexError"]
       \/ /\ ~TablesRaise(self)
          /\ exported' = to_streamlit_tables(self)
    /\ UNCHANGED <<caller_df, config, self, column_classification, partial, pc, exc,
                   returned, groq, planner, session>>

NextExport ==
    \/ Next
    \/ ToJson
    \/ ToStreamlitTables

\* the profiler and its exporters, on tables of one text or datetime column
\* and on the tables of two numeric columns x and y = -x
InitExport ==
    /\ \E in \in RepeatedInputs : caller_df = in[1] /\ config = in[2]
    /\ self = <<>>
    /\ column_classification = <<>>
    /\ partial = <<>>
    /\ pc = "new"
    /\ exc = "none"
    /\ returned = <<>>
    /\ Idle

SpecExport == InitExport /\ [][NextExport]_vars

\* VisualizationPlanner(df, profile_results).plan_visualizations(num_plots)
\* on the table the profiler was given and the profile it returned; the
\* record keeps the reply, what _validate_plots made of its plots and the
\* plan returned.  The page constructs one planner for one call
\* (visualizations.py, lines 55-60).
PlanVisualizations ==
    /\ pc = "done"
    /\ planner = <<>>
    /\ \E reply \in LlmReplies, target_plots \in PlotTargets :
           planner' =
               [ reply |-> reply,
                 target_plots |-> target_plots,
                 valid_plots |->
                     IF "content" \in DOMAIN reply
                     THEN validate_plots(caller_df, self.profile_results,
                                         Get(reply.content, "plots", <<>>))
                     ELSE <<>>,
                 plan |-> plan_visualizations(caller_df, self.profile_results,
                                              reply, target_plots) ]
    /\ UNCHANGED <<caller_df, config, self, column_classification, partial, pc, exc,
                   returned, exported, groq, session>>

NextPlanner ==
    \/ Next
    \/ PlanVisualizations

\* the profiler, then the planner, on the planner's tables
InitPlanner ==
    /\ \E in \in PlannerInputs : caller_df = in[1] /\ config = in[2]
    /\ self = <<>>
    /\ column_classification = <<>>
    /\ partial = <<>>
    /\ pc = "new"
    /\ exc = "none"
    /\ returned = <<>>
    /\ Idle

SpecPlanner == InitPlanner /\ [][NextPlanner]_vars

(* The Streamlit session (app/main.py, lines 202-212) and the click
   handlers of the profiling, visualizations and insights pages.  A field
   that is None holds Unset; `message` is the error the last click left on
   the page (a successful click reruns the script and shows none). *)
Unset == [unset |-> TRUE]

\* the slider of the visualizations page: its minimum, default and maximum
SliderValues == {5, 8, max_plots}

\* the replies of the LLM to the planner of the page
SessionReplies ==
    { [raised |-> "RuntimeError"],
      [content |-> [plots |-> <<[plot_type |-> "hist", columns |-> [list |-> <<XName>>]]>>]],
      [content |-> [plots |-> <<[plot_type |-> "scatter",
                                 columns |-> [list |-> <<XName, LowerIdName>>]]>>]] }

\* profiling.py, lines 33-46: the click on "Run Data Profiling"; the call
\* DataProfiler(df).profile() is the profiler above, run to its end
RunProfiling ==
    /\ session.df # Unset
    /\ session.profile_results = Unset
    /\ \/ /\ pc = "done"
          /\ session' = [session EXCEPT !.profile_results = returned[Len(returned)],
                                        !.message = ""]
       \/ /\ pc = "raised"
          /\ session' = [session EXCEPT !.message = "Error during profiling"]
    /\ UNCHANGED <<caller_df, config, self, column_classification, partial, pc, exc,
                   returned, exported, groq, planner>>

\* PlotGenerator.generate returns a figure for every specification (its
\* handler of line 74 returns an empty figure)
FigureOf(spec) == <<"fig", spec>>

\* visualizations.py, lines 37-77: the click on "Generate AI-Powered
\* Visualizations"; without an API key GroqClient.__init__ raises
GenerateVisualizations ==
    /\ session.df # Unset
    /\ session.profile_results # Unset
    /\ session.visualizations = <<>>
    /\ \E num_plots \in SliderValues, reply \in SessionReplies, api_key \in BOOLEAN :
           IF api_key
           THEN LET plot_specs == plan_visualizations(session.df, session.profile_results,
                                                      reply, num_plots)
                IN session' =
                       [session EXCEPT
                           !.visualizations =
                               [i \in 1..Len(plot_specs) |-> FigureOf(plot_specs[i])],
                           !.message = ""]
           ELSE session' = [session EXCEPT !.message = "Error generating visualizations"]
    /\ UNCHANGED <<caller_df, config, self, column_classification, partial, pc, exc,
                   returned, exported, groq, planner>>

\* visualizations.py, lines 116-118: the click on "Regenerate
\* Visualizations", shown below the plots
RegenerateVisualizations ==
    /\ session.df # Unset
    /\ session.profile_results # Unset
    /\ session.visualizations # <<>>
    /\ session' = [session EXCEPT !.visualizations = <<>>, !.message = ""]
    /\ UNCHANGED <<caller_df, config, self, column_classification, partial, pc, exc,
                   returned, exported, groq, planner>>

\* insights.py, lines 42-64: the click on "Generate AI-Powered Insights";
\* the insights are kept as the summaries they were generated from
GenerateInsights ==
    /\ session.df # Unset
    /\ session.profile_results # Unset
    /\ session.visualizations # <<>>
    /\ session.insights = Unset
    /\ \E api_key \in BOOLEAN :
           IF api_key
           THEN session' =
                    [session EXCEPT
                        !.insights =
                            [viz_summaries |->
                                 [i \in 1..Len(session.visualizations) |->
                                     session.visualizations[i][2]]],
                        !.message = ""]
           ELSE session' = [session EXCEPT !.message = "Error generating insights"]
    /\ UNCHANGED <<caller_df, config, self, column_classification, partial, pc, exc,
                   returned, exported, groq, planner>>

\* insights.py, lines 135-137: the click on "Regenerate Insights"
RegenerateInsights ==
    /\ session.df # Unset
    /\ session.profile_results # Unset
    /\ session.visualizations # <<>>
    /\ session.insights # Unset
    /\ session' = [session EXCEPT !.insights = Unset, !.message = ""]
    /\ UNCHANGED <<caller_df, config, self, column_classification, partial, pc, exc,
                   returned, exported, groq, planner>>

NextSession ==
    \/ Next
    \/ RunProfiling
    \/ GenerateVisualizations
    \/ RegenerateVisualizations
    \/ GenerateInsights
    \/ RegenerateInsights

\* a new session, without a dataset or with one of the planner's tables
\* loaded
InitSession ==
    /\ \E in \in PlannerInputs : caller_df = in[1] /\ config = in[2]
    /\ self = <<>>
    /\ column_classification = <<>>
    /\ partial = <<>>
    /\ pc = "new"
    /\ exc = "none"
    /\ returned = <<>>
    /\ exported = <<>>
    /\ groq = <<>>
    /\ planner = <<>>
    /\ session \in { [ df |-> df, profile_results |-> Unset, visualizations |-> <<>>,
                       insights |-> Unset, message |-> "" ] : df \in {Unset, caller_df} }

SpecSession == InitSession /\ [][NextSession]_vars

NextRepeated ==
    \/ Next
    \/ ProfileAgain
    \/ ConstructAgain

\* the profiler called more than once, on tables of one text or datetime
\* column and on the tables of two numeric columns x and y = -x
InitRepeated ==
    /\ \E in \in RepeatedInputs : caller_df = in[1] /\ config = in[2]
    /\ self = <<>>
    /\ column_classification = <<>>
    /\ partial = <<>>
    /\ pc = "new"
    /\ exc = "none"
    /\ returned = <<>>
    /\ Idle

SpecRepeated == InitRepeated /\ [][NextRepeated]_vars

\* the profiler on the tables of one text column
InitText ==
    /\ \E in \in TextInputs : caller_df = in[1] /\ config = in[2]
    /\ self = <<>>
    /\ column_classification = <<>>
    /\ partial = <<>>
    /\ pc = "new"
    /\ exc = "none"
    /\ returned = <<>>
    /\ Idle

SpecText == InitText /\ [][Next]_vars

\* the profiler on the tables of numeric columns
InitNumeric ==
    /\ \E in \in NumericInputs : caller_df = in[1] /\ config = in[2]
    /\ self = <<>>
    /\ column_classification = <<>>
    /\ partial = <<>>
    /\ pc = "new"
    /\ exc = "none"
    /\ returned = <<>>
    /\ Idle

SpecNumeric == InitNumeric /\ [][Next]_vars

(******************************* claims ************************************)
InList(xs, x) == \E i \in 1..Len(xs) : xs[i] = x
ColumnSet == {caller_df.columns[i] : i \in 1..Len(caller_df.columns)}
Classified == pc \notin {"new", "ready"}
HasEntry(key) == key \in DOMAIN partial
\* the class lists that hold the name
ClassesHolding(nm) == {c \in Classes : InList(column_classification[c], nm)}
Occurs(xs, x) == Cardinality({i \in 1..Len(xs) : xs[i] = x})
\* the name contains a configured pattern, letter case ignored on both sides
CaseInsensitiveMatch(patterns, nm) ==
    \E i \in 1..Len(patterns) : StrIn(Lower(patterns[i]), Lower(nm))
NonMissing(col) == {i \in 1..Len(col.cells) : col.cells[i].k # "na"}
DistinctValues(col) == {col.cells[i].v : i \in NonMissing(col)}

\* C1: after classification every column name is in exactly one of the five
\* class lists, once, and the lists hold nothing but column names.
C1_ClassesPartitionColumns ==
    Classified =>
        /\ \A col \in ColumnSet :
              /\ Cardinality(ClassesHolding(col.name)) = 1
              /\ \A c \in ClassesHolding(col.name) :
                    Occurs(column_classification[c], col.name) = 1
        /\ \A c \in Classes : \A i \in 1..Len(column_classification[c]) :
              \E col \in ColumnSet : col.name = column_classification[c][i]

\* C1 witness: a two-column table whose columns went to two different classes.
C1_Witness ==
    /\ pc = "done"
    /\ Len(caller_df.columns) = 2
    /\ Cardinality({c \in Classes : column_classification[c] # <<>>}) = 2

\* C2 (as claimed): a column whose name contains a configured ID pattern,
\* letter case ignored in the name and in the pattern, is classified id and
\* nothing else, and has no numeric_stats entry.
C2_IdPatternWinsAnyCase ==
    Classified =>
        \A col \in ColumnSet :
            CaseInsensitiveMatch(self.id_patterns, col.name) =>
                /\ ClassesHolding(col.name) = {"id"}
                /\ HasEntry("numeric_stats") =>
                       col.name \notin DOMAIN partial["numeric_stats"]

\* C3: a column whose name matches no pattern is id exactly when it has a
\* non-missing value and distinct / non-missing >= high_cardinality_threshold.
C3_CardinalityRule ==
    Classified =>
        \A col \in ColumnSet :
            ~IdPatternMatch(self.id_patterns, col.name) =>
                LET t == self.high_cardinality_threshold
                    nn == Cardinality(NonMissing(col))
                    distinct == Cardinality({col.cells[i] : i \in NonMissing(col)})
                IN InList(column_classification["id"], col.name)
                   <=> (nn > 0 /\ distinct * t[2] >= t[1] * nn)

\* C3 witness: an unmatched column sitting exactly on the threshold is id.
C3_Witness ==
    /\ Classified
    /\ \E col \in ColumnSet :
          /\ ~IdPatternMatch(self.id_patterns, col.name)
          /\ Cardinality(NonMissing(col)) > 0
          /\ Cardinality({col.cells[i] : i \in NonMissing(col)})
                 * self.high_cardinality_threshold[2]
             = self.high_cardinality_threshold[1] * Cardinality(NonMissing(col))
          /\ InList(column_classification["id"], col.name)

\* C4 (as claimed): a column with no non-missing value and a name matching no
\* ID pattern is classified categorical, whatever its storage type.
C4_AllMissingIsCategorical ==
    Classified =>
        \A col \in ColumnSet :
            (NonMissing(col) = {} /\ ~CaseInsensitiveMatch(self.id_patterns, col.name))
                => ClassesHolding(col.name) = {"categorical"}

\* C5: a numeric-typed column the ID test does not take is boolean when it
\* has at most 2 distinct non-missing values, all of them 0 or 1, and
\* numeric otherwise.
C5_BooleanOrNumeric ==
    Classified =>
        \A col \in ColumnSet :
            (is_numeric_dtype(col.dtype)
             /\ ~InList(column_classification["id"], col.name)) =>
                IF Cardinality(DistinctValues(col)) <= 2
                   /\ DistinctValues(col) \subseteq {0, 1}
                THEN ClassesHolding(col.name) = {"boolean"}
                ELSE ClassesHolding(col.name) = {"numeric"}

\* C5 witness: a numeric-typed column with one distinct value, not 0 or 1,
\* classified numeric.
C5_Witness ==
    /\ Classified
    /\ \E col \in ColumnSet :
          /\ is_numeric_dtype(col.dtype)
          /\ Cardinality(DistinctValues(col)) = 1
          /\ DistinctValues(col) \cap {0, 1} = {}
          /\ ClassesHolding(col.name) = {"numeric"}

\* C6 (as claimed): a failure inside a per-class statistician never leaves
\* profile(): no run ends with an exception.
C6_FailureNeverPropagates == pc # "raised"

ResultKeys == { "overview", "columns", "numeric_stats", "categorical_stats",
                "datetime_stats", "correlations", "data_quality" }
\* the frame has no row or no column
EmptyShape(df) == df.index = 0 \/ Len(df.columns) = 0

\* C7 (as claimed): on a dataset with zero rows or zero columns no stage
\* runs: the run stays before classification or ends with an input-shape error.
C7_EmptyInputRaisesFirst ==
    EmptyShape(caller_df) =>
        \/ pc \in {"new", "ready"}
        \/ pc = "raised" /\ exc = "InputShapeError"

\* C7 (amended): DataProfiler makes no shape check: on a dataset with zero
\* rows or zero columns nothing is raised, every stage runs and profile()
\* returns a full ProfileResult (with duplicate_rows_pct nan for zero rows).
C7_EmptyInputIsProfiled ==
    EmptyShape(caller_df) =>
        /\ pc # "raised"
        /\ pc = "done" =>
              /\ DOMAIN self.profile_results = ResultKeys
              /\ self.profile_results["overview"].rows = caller_df.index
              /\ caller_df.index = 0 =>
                     IsNaN(self.profile_results["data_quality"].duplicate_rows_pct)

\* C7 witness: a table with a column and no row has been profiled to the end.
C7_Witness ==
    /\ pc = "done"
    /\ caller_df.index = 0
    /\ Len(caller_df.columns) = 1
    /\ DOMAIN self.profile_results = ResultKeys

NumericOptions == { "high_cardinality_threshold", "correlation_threshold",
                    "outlier_multiplier", "high_missing_threshold" }
ProfilingSection(cfg) == Get(cfg, "profiling", <<>>)
\* a numeric option of the configuration is negative
OutOfRange(cfg) ==
    \E o \in NumericOptions \cap DOMAIN ProfilingSection(cfg) :
        ProfilingSection(cfg)[o][1] < 0

\* C8 (as claimed): with an out-of-range option the construction fails: the
\* profiler is never built, profile() is never entered.
C8_OutOfRangeFailsAtConstruction ==
    OutOfRange(config) =>
        \/ pc = "new"
        \/ pc = "raised" /\ exc = "ConfigurationError"

\* C8 (amended): the construction never fails and checks no range: every
\* numeric option given, negative ones included, is stored as given in the
\* attribute of its name and is what profile() then uses.
C8_OutOfRangeIsStored ==
    pc # "new" =>
        /\ exc # "ConfigurationError"
        /\ \A o \in NumericOptions \cap DOMAIN ProfilingSection(config) :
              self[o] = ProfilingSection(config)[o]

\* C8 witness: a profiler built with a negative high_cardinality_threshold
\* has run to the end, and the negative threshold made a column id.
C8_Witness ==
    /\ pc = "done"
    /\ OutOfRange(config)
    /\ self.high_cardinality_threshold[1] < 0
    /\ column_classification["id"] # <<>>

\* C9: the numeric statistics of a column with a non-missing value are
\* ordered, min <= q25 <= median <= q75 <= max, and where the outlier fields
\* are present 0 <= outlier_count <= count and 0 <= outlier_pct <= 100.
C9_QuantilesOrdered ==
    HasEntry("numeric_stats") =>
        \A nm \in DOMAIN partial["numeric_stats"] :
            LET st == partial["numeric_stats"][nm] IN
            "error" \notin DOMAIN st =>
                /\ FLe(st.min, st.q25)
                /\ FLe(st.q25, st.median)
                /\ FLe(st.median, st.q75)
                /\ FLe(st.q75, st.max)
                /\ "outlier_pct" \in DOMAIN st =>
                       /\ 0 <= st.outlier_count
                       /\ st.outlier_count <= st.count
                       /\ FLe(Frac(0, 1), st.outlier_pct)
                       /\ FLe(st.outlier_pct, Frac(100, 1))

\* C9 witness: statistics with min < q25 < median < q75 < max.
C9_Witness ==
    /\ HasEntry("numeric_stats")
    /\ \E nm \in DOMAIN partial["numeric_stats"] :
          LET st == partial["numeric_stats"][nm] IN
          /\ "error" \notin DOMAIN st
          /\ FLt(st.min, st.q25)
          /\ FLt(st.q25, st.median)
          /\ FLt(st.median, st.q75)
          /\ FLt(st.q75, st.max)
          /\ "outlier_pct" \in DOMAIN st

\* the k-th smallest non-missing value of the column, by counting
KthSmallest(col, k) ==
    CHOOSE v \in DistinctValues(col) :
        /\ Cardinality({i \in NonMissing(col) : col.cells[i].v < v}) < k
        /\ k <= Cardinality({i \in NonMissing(col) : col.cells[i].v <= v})
\* four times the q-th quartile (q = 1, 3) of the non-missing values
QuartileTimes4(col, q) ==
    LET n == Cardinality(NonMissing(col))
        lo == ((n - 1) * q) \div 4
        r == ((n - 1) * q) % 4
        a == KthSmallest(col, lo + 1)
        b == KthSmallest(col, IF lo + 2 > n THEN n ELSE lo + 2)
    IN 4 * a + r * (b - a)
\* the rows whose value lies strictly outside Q1 - k*IQR .. Q3 + k*IQR
StrictlyOutside(col, k) ==
    LET q1 == QuartileTimes4(col, 1)
        q3 == QuartileTimes4(col, 3)
    IN {i \in NonMissing(col) :
           \/ 4 * k[2] * col.cells[i].v < k[2] * q1 - k[1] * (q3 - q1)
           \/ 4 * k[2] * col.cells[i].v > k[2] * q3 + k[1] * (q3 - q1)}

\* C10: with outlier_method IQR, outlier_count is the number of non-missing
\* values strictly below Q1 - k*(Q3-Q1) or strictly above Q3 + k*(Q3-Q1), Q1
\* and Q3 the quartiles and k the outlier_multiplier, and outlier_pct is
\* outlier_count / non-missing count * 100.
C10_IqrOutlierCount ==
    (HasEntry("numeric_stats") /\ self.outlier_method = "IQR") =>
        \A col \in ColumnSet :
            col.name \in DOMAIN partial["numeric_stats"] =>
                LET st == partial["numeric_stats"][col.name]
                    outside == StrictlyOutside(col, self.outlier_multiplier)
                IN "error" \notin DOMAIN st =>
                      /\ st.outlier_count = Cardinality(outside)
                      /\ FEq(st.outlier_pct,
                             Frac(Cardinality(outside) * 100,
                                  Cardinality(NonMissing(col))))

\* C10 witness: under the multiplier 1.5 a four-value column has one outlier,
\* and three values that are none.
C10_Witness ==
    /\ HasEntry("numeric_stats")
    /\ self.outlier_method = "IQR"
    /\ self.outlier_multiplier = Frac(15, 10)
    /\ \E nm \in DOMAIN partial["numeric_stats"] :
          LET st == partial["numeric_stats"][nm] IN
          /\ "error" \notin DOMAIN st
          /\ st.count = 4
          /\ st.outlier_count = 1
          /\ FEq(st.outlier_pct, Frac(25, 1))

(************************ categorical statistician *************************)
\* the configured size of the top-categories list, read from the
\* configuration the caller passed
ConfiguredTopCount == Get(ProfilingSection(config), "top_categories_count", 10)
DistinctCells(col) == {col.cells[i] : i \in NonMissing(col)}
CellCount(col, value) == Cardinality({i \in NonMissing(col) : col.cells[i] = value})
Smaller(a, b) == IF a < b THEN a ELSE b

\* C12: a categorical entry has unique_count = the number of distinct
\* non-missing values, and top_categories lists min(top_categories_count,
\* distinct) different values of the column with their counts, in
\* non-increasing order of count, no value left out being more frequent than
\* a listed one, each with percentage = count / non-missing count * 100.
C12_TopCategories ==
    HasEntry("categorical_stats") =>
        \A col \in ColumnSet :
            col.name \in DOMAIN partial["categorical_stats"] =>
                LET st == partial["categorical_stats"][col.name]
                    top == st.top_categories
                    listed == {top[i].value : i \in 1..Len(top)}
                IN /\ st.unique_count = Cardinality(DistinctCells(col))
                   /\ Len(top) = Smaller(ConfiguredTopCount,
                                         Cardinality(DistinctCells(col)))
                   /\ Cardinality(listed) = Len(top)
                   /\ listed \subseteq DistinctCells(col)
                   /\ \A i \in 1..Len(top) :
                        /\ top[i].count = CellCount(col, top[i].value)
                        /\ FEq(top[i].percentage,
                               Frac(top[i].count * 100, Cardinality(NonMissing(col))))
                        /\ \A j \in (i + 1)..Len(top) : top[i].count >= top[j].count
                        /\ \A v \in DistinctCells(col) \ listed :
                              CellCount(col, v) <= top[i].count

\* C12 witness: the column A, A, B has two distinct values and the list
\* (A, 2, 200/3 %), (B, 1, 100/3 %).
C12_Witness ==
    /\ HasEntry("categorical_stats")
    /\ \E col \in ColumnSet :
          /\ col.cells = <<Str(1), Str(1), Str(2)>>
          /\ col.name \in DOMAIN partial["categorical_stats"]
          /\ LET st == partial["categorical_stats"][col.name] IN
             /\ st.unique_count = 2
             /\ st.top_categories =
                    << [value |-> Str(1), count |-> 2, percentage |-> Frac(200, 3)],
                       [value |-> Str(2), count |-> 1, percentage |-> Frac(100, 3)] >>

\* C13 (as claimed): for a top_categories_count >= 1 the entropy of a
\* categorical entry is >= 0, and it is 0 exactly when the column has at
\* most one distinct non-missing value.
C13_EntropyOverAllValues ==
    (HasEntry("categorical_stats") /\ ConfiguredTopCount >= 1) =>
        \A col \in ColumnSet :
            col.name \in DOMAIN partial["categorical_stats"] =>
                LET st == partial["categorical_stats"][col.name] IN
                /\ FLe(ZeroEntropy, st.entropy)
                /\ FEq(st.entropy, ZeroEntropy)
                       <=> Cardinality(DistinctCells(col)) <= 1

(************************* datetime statistician ***************************)
\* the valid timestamps of the column, as centuries
ValidTimes(col) ==
    {i \in 1..Len(col.cells) : col.cells[i].k \in {"ts", "datestr"}}
\* the differences between successive timestamps in time order
SuccessiveDiffs(col) ==
    LET ts == SortValues(DatetimeSeries(col))
    IN [i \in 1..(Len(ts) - 1) |-> ts[i + 1] - ts[i]]

\* C14 (as claimed): a datetime entry of a column with at least 2 valid
\* timestamps carries inferred_frequency, the most common difference between
\* successive timestamps, also when that difference is zero.
C14_FrequencyRecorded ==
    HasEntry("datetime_stats") =>
        \A col \in ColumnSet :
            (col.name \in DOMAIN partial["datetime_stats"]
             /\ Cardinality(ValidTimes(col)) >= 2) =>
                LET st == partial["datetime_stats"][col.name]
                    diffs == SuccessiveDiffs(col)
                IN /\ "inferred_frequency" \in DOMAIN st
                   /\ \A i \in 1..Len(diffs) :
                         Occurrences(diffs, diffs[i])
                             <= Occurrences(diffs, st.inferred_frequency)

(*************************** numeric scenarios *****************************)
\* C11 (as claimed): profiling the single numeric column 1, 2, 3, 4, 100
\* under the default configuration gives a numeric_stats entry for it with
\* outlier_count = 1.
C11_OneOutlierInScenario ==
    (pc = "done" /\ caller_df = Frame(<<ColumnWithOutlier>>) /\ config = DefaultConfig) =>
        /\ XName \in DOMAIN self.profile_results["numeric_stats"]
        /\ self.profile_results["numeric_stats"][XName].outlier_count = 1

(************************** correlation analyzer ***************************)
\* the position of the column of that name in the table
PositionOf(nm) == CHOOSE i \in 1..Len(caller_df.columns) : caller_df.columns[i].name = nm
IsNumericClass(nm) == InList(column_classification["numeric"], nm)
\* the rows where both columns hold a value
BothPresent(a, b) == NonMissing(a) \cap NonMissing(b)
SumOver(rows, col) ==
    LET RECURSIVE Sum(_)
        Sum(R) == IF R = {} THEN 0
                  ELSE LET i == CHOOSE i \in R : TRUE
                       IN col.cells[i].v + Sum(R \ {i})
    IN Sum(rows)
\* the sum over the rows of the products of the deviations from the means
\* of a and of b, times the square of the number of rows
Codeviation(a, b) ==
    LET rows == BothPresent(a, b)
        n == Cardinality(rows)
        RECURSIVE Sum(_)
        Sum(R) == IF R = {} THEN 0
                  ELSE LET i == CHOOSE i \in R : TRUE
                       IN (n * a.cells[i].v - SumOver(rows, a))
                              * (n * b.cells[i].v - SumOver(rows, b))
                          + Sum(R \ {i})
    IN Sum(rows)
\* Pearson's r of the two columns is defined
HasPearson(a, b) ==
    LET rows == BothPresent(a, b)
        pa == [a EXCEPT !.cells = [i \in 1..Len(a.cells) |->
                                      IF i \in rows THEN a.cells[i] ELSE NA]]
        pb == [b EXCEPT !.cells = [i \in 1..Len(b.cells) |->
                                      IF i \in rows THEN b.cells[i] ELSE NA]]
    IN Codeviation(pa, pa) > 0 /\ Codeviation(pb, pb) > 0
\* r^2 as the fraction codev(a,b)^2 / (codev(a,a) * codev(b,b)), over the
\* rows where both are present
PearsonSquared(a, b) ==
    LET rows == BothPresent(a, b)
        pa == [a EXCEPT !.cells = [i \in 1..Len(a.cells) |->
                                      IF i \in rows THEN a.cells[i] ELSE NA]]
        pb == [b EXCEPT !.cells = [i \in 1..Len(b.cells) |->
                                      IF i \in rows THEN b.cells[i] ELSE NA]]
    IN Frac(Codeviation(pa, pb) * Codeviation(pa, pb),
            Codeviation(pa, pa) * Codeviation(pb, pb))
\* |r| >= threshold
AtLeastThreshold(a, b, t) ==
    /\ HasPearson(a, b)
    /\ t[1] < 0 \/ FLe(FMul(t, t), PearsonSquared(a, b))
StrongCorrelations == partial["correlations"].strong_correlations

\* C15: with at least two numeric-class columns, strong_correlations holds
\* one record for every pair of numeric-class columns (the first before the
\* second in the table) whose Pearson r has |r| >= correlation_threshold,
\* and no other record; a record names both columns, carries r, and its
\* strength is positive for r > 0 and negative for r < 0.
C15_StrongCorrelationRecords ==
    (HasEntry("correlations") /\ Len(column_classification["numeric"]) >= 2) =>
        /\ \A a \in ColumnSet : \A b \in ColumnSet :
              Cardinality({i \in 1..Len(StrongCorrelations) :
                              /\ StrongCorrelations[i].column1 = a.name
                              /\ StrongCorrelations[i].column2 = b.name})
                  = IF /\ IsNumericClass(a.name) /\ IsNumericClass(b.name)
                       /\ PositionOf(a.name) < PositionOf(b.name)
                       /\ AtLeastThreshold(a, b, self.correlation_threshold)
                    THEN 1 ELSE 0
        /\ \A i \in 1..Len(StrongCorrelations) :
              LET rec == StrongCorrelations[i]
                  a == ColumnOf(caller_df.columns, rec.column1)
                  b == ColumnOf(caller_df.columns, rec.column2)
              IN /\ FEq(rec.correlation.sq, PearsonSquared(a, b))
                 /\ Codeviation(a, b) > 0 => (rec.correlation.sgn = 1
                                              /\ rec.strength = "positive")
                 /\ Codeviation(a, b) < 0 => (rec.correlation.sgn = -1
                                              /\ rec.strength = "negative")

\* C15 witness: three numeric-class columns under the threshold 1/2: one
\* pair with r = 1/2 exactly and a positive record, one pair with a negative
\* record, one pair below the threshold and without a record.
C15_Witness ==
    /\ HasEntry("correlations")
    /\ Len(column_classification["numeric"]) = 3
    /\ self.correlation_threshold = Frac(1, 2)
    /\ Len(StrongCorrelations) = 2
    /\ \E i \in 1..2 :
          /\ FEq(StrongCorrelations[i].correlation.sq, Frac(1, 4))
          /\ StrongCorrelations[i].strength = "positive"
    /\ \E i \in 1..2 : StrongCorrelations[i].strength = "negative"

\* C16: strong_correlations is in non-increasing order of |correlation|, and
\* records of equal |correlation| are in the order their pairs are visited:
\* by first column, then by second column, in table order.
C16_SortedByAbsStable ==
    HasEntry("correlations") =>
        \A i \in 1..Len(StrongCorrelations) : \A j \in (i + 1)..Len(StrongCorrelations) :
            LET ri == StrongCorrelations[i]
                rj == StrongCorrelations[j]
            IN /\ FLe(rj.correlation.sq, ri.correlation.sq)
               /\ FEq(rj.correlation.sq, ri.correlation.sq) =>
                     \/ PositionOf(ri.column1) < PositionOf(rj.column1)
                     \/ /\ PositionOf(ri.column1) = PositionOf(rj.column1)
                        /\ PositionOf(ri.column2) < PositionOf(rj.column2)

\* C16 witness: three records, the pair visited first has the smallest
\* |correlation| and is last, the other two tie and keep their visit order.
C16_Witness ==
    /\ HasEntry("correlations")
    /\ Len(StrongCorrelations) = 3
    /\ StrongCorrelations[3].column1 = XName
    /\ StrongCorrelations[3].column2 = YName
    /\ FLt(StrongCorrelations[3].correlation.sq, StrongCorrelations[2].correlation.sq)
    /\ FEq(StrongCorrelations[1].correlation.sq, StrongCorrelations[2].correlation.sq)
    /\ StrongCorrelations[1].column2 = ZName
    /\ StrongCorrelations[1].column1 = XName

\* C17 (as claimed): under the default configuration a table of two numeric
\* columns x and y = -x, x holding at least two different values, has
\* exactly one strong_correlations record: (x, y), r = -1, strength negative.
C17_AntiCorrelatedPair ==
    (/\ HasEntry("correlations")
     /\ config = DefaultConfig
     /\ Len(caller_df.columns) = 2
     /\ caller_df.columns[2].cells = Negated(caller_df.columns[1].cells)
     /\ Cardinality(DistinctCells(caller_df.columns[1])) >= 2) =>
        /\ Len(StrongCorrelations) = 1
        /\ StrongCorrelations[1].column1 = XName
        /\ StrongCorrelations[1].column2 = YName
        /\ StrongCorrelations[1].correlation.sgn = -1
        /\ FEq(StrongCorrelations[1].correlation.sq, Frac(1, 1))
        /\ StrongCorrelations[1].strength = "negative"

(***************************** quality auditor *****************************)
\* the cells of row i, column by column
RowCells(i) == [c \in 1..Len(caller_df.columns) |-> caller_df.columns[c].cells[i]]
Quality == self.profile_results["data_quality"]

\* C18: duplicate_rows is the number of rows that repeat an earlier row in
\* every column, missing equal to missing, i.e. the number of rows less the
\* number of different rows, and duplicate_rows_pct is duplicate_rows /
\* total rows * 100.
C18_DuplicateRows ==
    (pc = "done" /\ Len(caller_df.columns) > 0 /\ caller_df.index > 0) =>
        /\ Quality.duplicate_rows
               = caller_df.index - Cardinality({RowCells(i) : i \in 1..caller_df.index})
        /\ FEq(Quality.duplicate_rows_pct,
               Frac(Quality.duplicate_rows * 100, caller_df.index))

\* C18 witness: the table of 100 rows with 10 repeats has duplicate_rows 10
\* and duplicate_rows_pct 10.
C18_Witness ==
    /\ pc = "done"
    /\ caller_df.index = 100
    /\ Quality.duplicate_rows = 10
    /\ FEq(Quality.duplicate_rows_pct, Frac(10, 1))

\* C19: a column, of whatever class, is in high_missing_columns, once,
\* exactly when its missing count / total rows >= high_missing_threshold,
\* and its record carries that fraction * 100 as missing_pct.
C19_HighMissingColumns ==
    (pc = "done" /\ caller_df.index > 0) =>
        LET hm == Quality.high_missing_columns
            t == self.high_missing_threshold
        IN /\ \A col \in ColumnSet :
                 LET missing == Len(col.cells) - Cardinality(NonMissing(col)) IN
                 /\ Cardinality({i \in 1..Len(hm) : hm[i].column = col.name})
                        = IF missing * t[2] >= t[1] * caller_df.index THEN 1 ELSE 0
                 /\ \A i \in 1..Len(hm) :
                        hm[i].column = col.name =>
                            FEq(hm[i].missing_pct, Frac(missing * 100, caller_df.index))
           /\ \A i \in 1..Len(hm) : \E col \in ColumnSet : hm[i].column = col.name

\* C19 witness: under the default threshold 0.5 a column classified id with
\* exactly half of its values missing is flagged with missing_pct 50, next
\* to a column that is not flagged.
C19_Witness ==
    /\ pc = "done"
    /\ self.high_missing_threshold = Frac(5, 10)
    /\ Len(caller_df.columns) = 2
    /\ Len(Quality.high_missing_columns) = 1
    /\ InList(column_classification["id"], Quality.high_missing_columns[1].column)
    /\ FEq(Quality.high_missing_columns[1].missing_pct, Frac(50, 1))

(****************************** repeated calls *****************************)
\* C20: the calls of profile() on one table and configuration, on the same
\* DataProfiler or on a second one built from them, all return the same
\* dict: a run leaves nothing behind that changes the next.
C20_RepeatedCallsAgree ==
    \A i \in 1..Len(returned) : \A j \in 1..Len(returned) : returned[i] = returned[j]

\* C20 witness: a second call has returned on a DataProfiler that already
\* held the result of the first, with statistics of a categorical column.
C20_Witness ==
    /\ pc = "done"
    /\ Len(returned) = 2
    /\ DOMAIN self.profile_results = DOMAIN returned[1]
    /\ DOMAIN returned[2]["categorical_stats"] # {}

(**************************** LLM client runs ******************************)
\* the configurations of the client
LlmConfigs ==
    {DefaultConfig} \cup {[llm |-> [max_retries |-> n]] : n \in 0..MaxRetries}

\* no DataProfiler is involved
NoProfiler ==
    /\ caller_df = [index |-> 0, columns |-> <<>>]
    /\ self = <<>>
    /\ column_classification = <<>>
    /\ partial = <<>>
    /\ pc = "new"
    /\ exc = "none"
    /\ returned = <<>>

\* a GroqClient on which generate has just been called
InitGroq ==
    /\ NoProfiler
    /\ \E cfg \in LlmConfigs : \E response_format \in {"text", "json"} :
          /\ config = cfg
          /\ groq = GroqCall(cfg, response_format)
    /\ exported = <<>>
    /\ planner = <<>>
    /\ session = <<>>

\* one attempt: the API call and what follows it in the loop body
Attempt ==
    /\ groq # <<>>
    /\ groq.status = "running"
    /\ groq.attempt < groq.max_retries
    /\ \E outcome \in ApiOutcomes : groq' = generate_round(groq, outcome)
    /\ UNCHANGED <<caller_df, config, self, column_classification, partial, pc, exc,
                   returned, exported, planner, session>>

\* range(max_retries) is exhausted: generate falls off its end and returns
\* None
LoopExhausted ==
    /\ groq # <<>>
    /\ groq.status = "running"
    /\ groq.attempt >= groq.max_retries
    /\ groq' = [groq EXCEPT !.status = "returned"]
    /\ UNCHANGED <<caller_df, config, self, column_classification, partial, pc, exc,
                   returned, exported, planner, session>>

NextGroq ==
    \/ Attempt
    \/ LoopExhausted

SpecGroq == InitGroq /\ [][NextGroq]_vars

(******************************* frame *************************************)
\* C21: constructing the DataProfiler, running profile() and exporting with
\* to_json() or to_streamlit_tables() never changes the caller's table, and
\* once the private copy is taken no step changes it: it stays equal to the
\* caller's table, cells, column types and column set.
C21_TableAndCopyUnchanged ==
    [][ /\ caller_df' = caller_df
        /\ pc' # "new" => self'.df = caller_df ]_vars

\* C21 witness: a text column of date strings was profiled as datetime, with
\* coercion, and exported, and the private copy still holds the strings.
C21_Witness ==
    /\ pc = "done"
    /\ exported # <<>>
    /\ column_classification["datetime"] # <<>>
    /\ self.df.columns[1].dtype = "object"
    /\ self.df = caller_df

(***************************** stage order *********************************)
\* the step puts the entry of that key into the result under construction
StageAdded(key) == key \notin DOMAIN partial /\ key \in DOMAIN partial'
Statisticians == {"numeric_stats", "categorical_stats", "datetime_stats"}

\* C22: in a profile() run a statistician runs only when the classification
\* is complete (and leaves it alone), the correlation analyzer only when the
\* statistics of every numeric-class column are in the result, and the
\* quality audit only when every other entry is, after which the run is over.
C22_StagesInOrder ==
    [][ /\ (\E key \in Statisticians : StageAdded(key)) =>
              /\ DOMAIN column_classification = Classes
              /\ "columns" \in DOMAIN partial
              /\ column_classification' = column_classification
        /\ StageAdded("correlations") =>
              /\ Statisticians \subseteq DOMAIN partial
              /\ DOMAIN partial["numeric_stats"] = Keys(column_classification["numeric"])
        /\ (pc # "done" /\ pc' = "done") =>
              /\ DOMAIN partial = ResultKeys \ {"data_quality"}
              /\ DOMAIN self'.profile_results = ResultKeys
        /\ pc = "done" => pc' \in {"done", "ready"} ]_vars

\* C22 witness: a run at the quality audit, holding the statistics of a
\* numeric-class column and the correlations computed after them.
C22_Witness ==
    /\ pc = "quality"
    /\ column_classification["numeric"] # <<>>
    /\ DOMAIN partial["numeric_stats"] # {}
    /\ "correlations" \in DOMAIN partial

(************************* counts of the entries ***************************)
StatsKeys == {"numeric_stats", "categorical_stats", "datetime_stats"}
NumericFields == {"count", "missing", "missing_pct", "mean", "median", "min", "max",
                  "q25", "q75"}

\* C28 (as claimed): in every entry of numeric_stats, categorical_stats and
\* datetime_stats that is no error marker, count + missing is the number of
\* rows of the table.
C28_CountPlusMissingIsRows ==
    pc = "done" =>
        \A key \in StatsKeys : \A nm \in DOMAIN self.profile_results[key] :
            LET st == self.profile_results[key][nm] IN
            "error" \notin DOMAIN st => st.count + st.missing = caller_df.index

\* C29: a column of the numeric class has a non-missing value, and no
\* numeric_stats entry is the error marker: each has all the numeric fields.
C29_NumericClassHasValues ==
    /\ Classified =>
          \A col \in ColumnSet :
              InList(column_classification["numeric"], col.name) => NonMissing(col) # {}
    /\ HasEntry("numeric_stats") =>
          \A nm \in DOMAIN partial["numeric_stats"] :
              /\ "error" \notin DOMAIN partial["numeric_stats"][nm]
              /\ NumericFields \subseteq DOMAIN partial["numeric_stats"][nm]

\* C29 witness: a float column without any value was classified, not as
\* numeric, next to a numeric-class column with its statistics.
C29_Witness ==
    /\ HasEntry("numeric_stats")
    /\ Len(caller_df.columns) = 2
    /\ is_numeric_dtype(caller_df.columns[1].dtype)
    /\ Len(caller_df.columns[1].cells) > 0
    /\ NonMissing(caller_df.columns[1]) = {}
    /\ DOMAIN partial["numeric_stats"] = {caller_df.columns[2].name}

(******************************** LLM client *******************************)
\* the attempt with that outcome counts as a success
Succeeds(response_format, outcome) ==
    /\ outcome # "api_error"
    /\ response_format = "json" => outcome \in {"json", "fenced_json"}

\* C23: with max_retries >= 1, generate makes at most max_retries calls; while
\* it runs every call so far has failed and was followed by a wait; when it
\* returns, the last call is the only one that succeeded and its content is
\* the result; when it raises, all max_retries calls failed and the error is
\* RuntimeError; the k-th wait (from 0) is 2^k seconds and no wait follows
\* the last call.
C23_RetriesBounded ==
    (groq # <<>> /\ groq.max_retries >= 1) =>
        LET calls == Len(groq.log)
            failed == {k \in 1..calls : ~Succeeds(groq.response_format, groq.log[k])}
        IN /\ calls <= groq.max_retries
           /\ groq.status = "running" =>
                 /\ calls < groq.max_retries
                 /\ failed = 1..calls
                 /\ Len(groq.slept) = calls
           /\ groq.status = "returned" =>
                 /\ calls >= 1
                 /\ failed = 1..(calls - 1)
                 /\ groq.result # <<>>
                 /\ Len(groq.slept) = calls - 1
           /\ groq.status = "raised" =>
                 /\ calls = groq.max_retries
                 /\ failed = 1..calls
                 /\ groq.exc = "RuntimeError"
                 /\ Len(groq.slept) = calls - 1
           /\ groq.status \in {"running", "returned", "raised"}
           /\ \A k \in 1..Len(groq.slept) : groq.slept[k] = Pow(2, k - 1)

\* C23 witness: with format json and max_retries 3, an API error and an
\* unparseable answer were followed by waits of 1 and 2 seconds and the
\* third call returned parsed JSON.
C23_Witness ==
    /\ groq # <<>>
    /\ groq.max_retries = 3
    /\ groq.response_format = "json"
    /\ groq.log = <<"api_error", "text", "fenced_json">>
    /\ groq.slept = <<1, 2>>
    /\ groq.status = "returned"


(************************* claims: the planner *****************************)
Plan == planner.plan
Planned == planner # <<>>
IdColumns == ColumnsOfClass(self.profile_results, "id")
InputPlots == Get(planner.reply.content, "plots", <<>>)
Validated == Planned /\ "content" \in DOMAIN planner.reply

\* the strictly increasing maps from 1..n into 1..m
IncreasingMaps(n, m) ==
    {f \in [1..n -> 1..m] : \A i, j \in 1..n : i < j => f[i] < f[j]}

\* out is the plot in, its columns replaced by some of them in their order
SamePlotFewerColumns(out, in) ==
    /\ DOMAIN out = DOMAIN in
    /\ \A key \in DOMAIN in \ {"columns"} : out[key] = in[key]
    /\ "columns" \in DOMAIN in
    /\ \E f \in IncreasingMaps(Len(out.columns), Len(AsList(in.columns))) :
           \A i \in 1..Len(out.columns) : out.columns[i] = AsList(in.columns)[f[i]]

IsSubSequence(outs, ins) ==
    \E f \in IncreasingMaps(Len(outs), Len(ins)) :
        \A i \in 1..Len(outs) : SamePlotFewerColumns(outs[i], ins[f[i]])

\* what the claim asks of each returned plot
WellFormedPlot(plot) ==
    /\ plot.plot_type \in {"bar", "line", "hist", "box", "scatter", "heatmap"}
    /\ plot.columns # <<>>
    /\ \A i \in 1..Len(plot.columns) :
           /\ InTable(caller_df, plot.columns[i])
           /\ ~InList(IdColumns, plot.columns[i])
           /\ plot.plot_type = "bar" =>
                  nunique(ColumnOf(caller_df.columns, plot.columns[i]).cells) > 1

WellFormedPlots(plots) ==
    /\ IsSubSequence(plots, InputPlots)
    /\ \A i \in 1..Len(plots) : WellFormedPlot(plots[i])

\* C24 as stated: what _validate_plots returns is a sub-sequence of its
\* input, every plot of it has a valid plot_type and a non-empty list of
\* columns that exist in the table and are no ID columns, no bar plot uses a
\* column of at most one distinct value, and no two plots have the same
\* plot_type and the same set of columns.
C24_NoTwoPlotsOfOneColumnSet ==
    Validated =>
        /\ WellFormedPlots(planner.valid_plots)
        /\ \A i, j \in 1..Len(planner.valid_plots) :
               i < j =>
                   ~ /\ planner.valid_plots[i].plot_type = planner.valid_plots[j].plot_type
                     /\ Keys(planner.valid_plots[i].columns)
                            = Keys(planner.valid_plots[j].columns)

\* C24, amended: the same, but no two plots have the same plot_type and the
\* same columns up to their order, a column listed twice counting twice.
C24_NoTwoPlotsOfOneSortedList ==
    Validated =>
        /\ WellFormedPlots(planner.valid_plots)
        /\ \A i, j \in 1..Len(planner.valid_plots) :
               i < j =>
                   ~ /\ planner.valid_plots[i].plot_type = planner.valid_plots[j].plot_type
                     /\ SortedNames(planner.valid_plots[i].columns)
                            = SortedNames(planner.valid_plots[j].columns)

\* two plots were sent, the second one was dropped as the first one with its
\* columns in another order
C24_Witness ==
    /\ Validated
    /\ InputPlots = << [plot_type |-> "bar", columns |-> [list |-> <<CatName, XName>>]],
                       [plot_type |-> "bar", columns |-> [list |-> <<XName, CatName>>]] >>
    /\ planner.valid_plots = <<[plot_type |-> "bar", columns |-> <<CatName, XName>>]>>

\* C25: no plot of the plan returned by plan_visualizations names a column
\* that the profile classifies as an ID column.
C25_NoIdColumnPlanned ==
    Planned =>
        \A i \in 1..Len(Plan) :
            \A k \in 1..Len(Plan[i].columns) : ~InList(IdColumns, Plan[i].columns[k])

\* the LLM suggested a scatter plot over x and the ID column of the table,
\* and the plan has the scatter plot, over x
C25_Witness ==
    /\ Validated
    /\ IdColumns # <<>>
    /\ \E i \in 1..Len(InputPlots) :
           /\ "columns" \in DOMAIN InputPlots[i]
           /\ InputPlots[i].columns = [list |-> <<XName, LowerIdName>>]
    /\ \E i \in 1..Len(Plan) : Plan[i].plot_type = "scatter"

\* C26: the plan returned by plan_visualizations has no two plots of the
\* same plot_type and the same columns.
C26_NoDuplicatePlanned ==
    Planned =>
        \A i, j \in 1..Len(Plan) :
            i < j => ~(Plan[i].plot_type = Plan[j].plot_type
                       /\ Plan[i].columns = Plan[j].columns)

\* C27: when the profile has a datetime column and a numeric column and
\* priorities 1 to 3 leave fewer plots than asked for, the fallback plan has
\* a line plot of a numeric column over a datetime column.
C27_TimeSeriesInFallback ==
    ( /\ Planned
      /\ "content" \notin DOMAIN planner.reply
      /\ ColumnsOfClass(self.profile_results, "datetime") # <<>>
      /\ ColumnsOfClass(self.profile_results, "numeric") # <<>>
      /\ Len(PrioritiesOneToThree(caller_df, self.profile_results, <<>>,
                                  planner.target_plots, 1)) < planner.target_plots )
    => \E i \in 1..Len(Plan) :
           /\ Plan[i].plot_type = "line"
           /\ Len(Plan[i].columns) = 2
           /\ InList(ColumnsOfClass(self.profile_results, "datetime"), Plan[i].columns[1])
           /\ InList(ColumnsOfClass(self.profile_results, "numeric"), Plan[i].columns[2])

(************************* claims: the session *****************************)
\* C30: in every session state reachable through the three pages, insights
\* are set only while the visualizations are non-empty and the profile is
\* set.
C30_InsightsOnlyWithVisualizations ==
    (session # <<>> /\ session.insights # Unset) =>
        /\ session.visualizations # <<>>
        /\ session.profile_results # Unset

====
